---------------------------- MODULE Spec2Model ----------------------------
(***************************************************************************)
(* Model of the Supabase automation scripts under tools/scripts:           *)
(*   setup.py, create-project.py, link.py, migrate.py, link-and-migrate.py *)
(*                                                                         *)
(* Two parts:                                                              *)
(*   - the environment-file synchronizer update_env_file (SpecEnv);        *)
(*   - the command runner and the step-by-step control flow of the five    *)
(*     main() functions with their retry loops (Spec).                     *)
(*                                                                         *)
(* Text is modelled as a sequence of lines (the text split on "\n"), a     *)
(* line as a sequence of tokens.  A token is either a single character or  *)
(* an indivisible piece of an identifier (a key name, "https://", ...).    *)
(***************************************************************************)
EXTENDS Naturals, Sequences, FiniteSets

VARIABLES
    (* ---- environment-file synchronizer ---- *)
    variant,      \* which update_env_file runs: "setup" or "create"
    creds,        \* the six credential arguments of update_env_file
    envExample,   \* content of .env.example (NoFile when it does not exist)
    envTemplate,  \* content of .env.template (NoFile when it does not exist)
    env,          \* content of .env (NoFile when it does not exist)
    calls,        \* history: one record per finished update_env_file call
    (* ---- one run of a script ---- *)
    cfg,          \* what the run starts from: script, flags, arguments, files
    pc,           \* the operation main() is at
    attempt,      \* attempt number inside the operation's retry loop
    status,       \* "running", "exit0" (main returned), "exit1"; "idle": no run
    exitAt,       \* the function that terminated the process ("" if none)
    errorMsg,     \* the message printed by error()
    last,         \* the most recent run_command call and what it returned
    hist,         \* history of the run_command calls of the run
    slept,        \* seconds of the time.sleep that followed it (0: none)
    loc,          \* main()'s locals: project name, credentials, results
    pwFile,       \* content of template_postgres_pw (NoFile: not written)
    prompts,      \* rename prompts answered so far (create-project.py)
    (* ---- one call of generate_secure_password ---- *)
    gen           \* the generator's script, length, characters joined so far

envVars == <<variant, creds, envExample, envTemplate, env, calls>>
runVars == <<cfg, pc, attempt, status, exitAt, errorMsg, last, hist, slept,
             loc, pwFile, prompts>>
vars == <<envVars, runVars, gen>>

(***************************************************************************)
(* Bounds of the model                                                     *)
(***************************************************************************)
MaxLines == 2     \* lines of an initial .env file
MaxCalls == 2     \* update_env_file calls made in sequence
MaxPrompts == 2   \* rename prompts answered in one run of create-project.py

(***************************************************************************)
(* Text                                                                    *)
(***************************************************************************)
NoFile    == <<>>          \* os.path.exists(...) is False: no line at all
EmptyFile == << <<>> >>    \* "".split("\n") = [""]: one empty line

BS == "\\"                 \* the backslash character
BT == "BACKTICK"           \* stands for the backtick, which no string here can hold

\* Tokens that begin with an ASCII letter (re's template parser rejects
\* a backslash followed by an ASCII letter that is no known escape).
LetterToks == {"k", "r", "j"}

\* Key names of the two env_vars mappings.
K_URL          == <<"SUPABASE_URL">>
K_ANON         == <<"SUPABASE_ANON_KEY">>
K_SERVICE      == <<"SUPABASE_SERVICE_KEY">>
K_SERVICE_ROLE == <<"SUPABASE_SERVICE_ROLE_KEY">>
K_PG_PASSWORD  == <<"POSTGRES_PASSWORD">>
K_DB_PASSWORD  == <<"SUPABASE_DB_PASSWORD">>
K_ORG          == <<"SUPABASE_ORG_ID">>
K_PROJECT      == <<"SUPABASE_PROJECT_ID">>
K_NEXT_URL     == <<"NEXT_PUBLIC_", "SUPABASE_URL">>
K_NEXT_ANON    == <<"NEXT_PUBLIC_", "SUPABASE_ANON_KEY">>
K_EXPO_URL     == <<"EXPO_PUBLIC_", "SUPABASE_URL">>
K_EXPO_ANON    == <<"EXPO_PUBLIC_", "SUPABASE_ANON_KEY">>

\* f"{key}={value}"
KeyValue(key, value) == key \o <<"=">> \o value

\* f"https://{project_id}.supabase.co"
ProjectUrl(project_id) == <<"https://">> \o project_id \o <<".supabase.co">>

(***************************************************************************)
(* re.compile(f"^{key}=.*", re.MULTILINE)                                  *)
(***************************************************************************)
\* Mutant of LineMatches: the pattern without its "^" anchor matches the
\* key anywhere in the line.
LineMatchesUnanchored(line, key) ==
    \E o \in 0..Len(line) :
        /\ Len(line) > o + Len(key)
        /\ SubSeq(line, o + 1, o + Len(key)) = key
        /\ line[o + Len(key) + 1] = "="

\* The pattern matches on a line iff the line begins with the key
\* immediately followed by "="; the match then covers the whole line.
LineMatches(line, key) ==
    /\ Len(line) > Len(key)
    /\ SubSeq(line, 1, Len(key)) = key
    /\ line[Len(key) + 1] = "="

\* pattern.search(env_content)
PatternSearch(content, key) ==
    \E i \in 1..Len(content) : LineMatches(content[i], key)

\* Expansion of a replacement template by re.sub: a backslash escapes the
\* token after it.  "\\" yields one backslash, a backslash before an ASCII
\* letter that is no escape, or at the end of the template, raises re.error;
\* before any other character both characters are kept.
RECURSIVE ExpandTemplate(_)
ExpandTemplate(t) ==
    IF t = <<>> THEN [ok |-> TRUE, out |-> <<>>]
    ELSE IF Head(t) # BS
    THEN LET r == ExpandTemplate(Tail(t))
         IN  [ok |-> r.ok, out |-> <<Head(t)>> \o r.out]
    ELSE IF Len(t) = 1 THEN [ok |-> FALSE, out |-> <<>>]
    ELSE IF t[2] = BS
    THEN LET r == ExpandTemplate(Tail(Tail(t)))
         IN  [ok |-> r.ok, out |-> <<BS>> \o r.out]
    ELSE IF t[2] \in LetterToks THEN [ok |-> FALSE, out |-> <<>>]
    ELSE LET r == ExpandTemplate(Tail(Tail(t)))
         IN  [ok |-> r.ok, out |-> <<BS, t[2]>> \o r.out]

\* pattern.sub(f"{key}={value}", env_content): every matching line is
\* replaced by the expanded template.
PatternSub(content, key, repl) ==
    [i \in 1..Len(content) |->
        IF LineMatches(content[i], key) THEN repl ELSE content[i]]


(***************************************************************************)
(* update_env_file                                                         *)
(***************************************************************************)
\* Mutant of CreateIfMissing: .env.template is tried before .env.example.
CreateIfMissingTemplateFirst(dotenv, example, template) ==
    IF dotenv # NoFile THEN dotenv
    ELSE IF template # NoFile THEN template
    ELSE IF example # NoFile THEN example
    ELSE EmptyFile

\* The "create .env if it doesn't exist" block: the first existing
\* template in the order .env.example, .env.template, else an empty file.
CreateIfMissing(dotenv, example, template) ==
    IF dotenv # NoFile THEN dotenv
    ELSE IF example # NoFile THEN example
    ELSE IF template # NoFile THEN template
    ELSE EmptyFile

\* env_vars of setup.py, in dict order.
EnvVarsSetup(c) ==
    << <<K_NEXT_URL, c.project_url>>,
       <<K_NEXT_ANON, c.anon_key>>,
       <<K_URL, c.project_url>>,
       <<K_ANON, c.anon_key>>,
       <<K_SERVICE, c.service_key>>,
       <<K_PG_PASSWORD, c.db_password>>,
       <<K_ORG, c.org_id>> >>

\* env_vars of create-project.py, in dict order, followed by the public
\* variants, which are synchronized only for a non-empty value.
EnvVarsCreate(c) ==
    << <<K_URL, c.project_url>>,
       <<K_ANON, c.anon_key>>,
       <<K_SERVICE_ROLE, c.service_key>>,
       <<K_DB_PASSWORD, c.db_password>>,
       <<K_ORG, c.org_id>>,
       <<K_PROJECT, c.project_id>> >>
    \o (IF c.project_url # <<>>
        THEN << <<K_NEXT_URL, c.project_url>>, <<K_EXPO_URL, c.project_url>> >>
        ELSE <<>>)
    \o (IF c.anon_key # <<>>
        THEN << <<K_NEXT_ANON, c.anon_key>>, <<K_EXPO_ANON, c.anon_key>> >>
        ELSE <<>>)

EnvVars(v, c) == IF v = "setup" THEN EnvVarsSetup(c) ELSE EnvVarsCreate(c)

\* Mutant of SyncKey: the appended text lacks its leading "\n", so that it
\* continues the last line.
SyncKeyNoNewline(content, key, value) ==
    IF PatternSearch(content, key)
    THEN LET r == ExpandTemplate(KeyValue(key, value))
         IN  IF r.ok
             THEN [ok |-> TRUE, text |-> PatternSub(content, key, r.out)]
             ELSE [ok |-> FALSE, text |-> content]
    ELSE [ok |-> TRUE,
          text |-> [content EXCEPT ![Len(content)] = @ \o KeyValue(key, value)]]

\* One iteration of "for key, value in env_vars.items()": replace every
\* matching line, or append "\nKEY=value".  ok = FALSE: re.error raised.
SyncKey(content, key, value) ==
    IF PatternSearch(content, key)
    THEN LET r == ExpandTemplate(KeyValue(key, value))
         IN  IF r.ok
             THEN [ok |-> TRUE, text |-> PatternSub(content, key, r.out)]
             ELSE [ok |-> FALSE, text |-> content]
    ELSE [ok |-> TRUE, text |-> Append(content, KeyValue(key, value))]

\* The loop over all pairs; an exception leaves the loop at once.
RECURSIVE SyncAll(_, _)
SyncAll(content, pairs) ==
    IF pairs = <<>> THEN [ok |-> TRUE, text |-> content]
    ELSE LET r == SyncKey(content, Head(pairs)[1], Head(pairs)[2])
         IN  IF r.ok THEN SyncAll(r.text, Tail(pairs))
             ELSE [ok |-> FALSE, text |-> content]

\* The whole function on the three files: the text read from .env after
\* the creation block (pre), whether it returned (ok), and the content of
\* .env afterwards (post): the file is written only after the loop, so an
\* exception leaves it as read.
update_env_file(v, c, dotenv, example, template) ==
    LET pre == CreateIfMissing(dotenv, example, template)
        r   == SyncAll(pre, EnvVars(v, c))
    IN  [existed |-> dotenv # NoFile,
         pre     |-> pre,
         ok      |-> r.ok,
         post    |-> IF r.ok THEN r.text ELSE pre]

(***************************************************************************)
(* Inputs of the synchronizer                                              *)
(***************************************************************************)
\* Lines an initial .env is made of: blank, a commented-out key, a mapped
\* key, a mapped key after leading blank space, a public variant, a key
\* outside the mappings, a mapped key with an empty value.
LinePool ==
    { <<>>,
      <<"#", "SUPABASE_ORG_ID", "=", "k">>,
      <<"SUPABASE_ORG_ID", "=", "k">>,
      <<" ", "SUPABASE_ORG_ID", "=", "k">>,
      <<"NEXT_PUBLIC_", "SUPABASE_URL", "=", "k">>,
      <<"OTHER", "=", "k">>,
      <<"SUPABASE_URL", "=">> }

RECURSIVE Texts(_)
Texts(n) ==
    IF n = 0 THEN {<<>>}
    ELSE LET S == Texts(n - 1)
         IN  S \cup {Append(t, l) : t \in {x \in S : Len(x) = n - 1}, l \in LinePool}

\* Existing .env files of 1..MaxLines lines.
EnvFiles == Texts(MaxLines) \ {NoFile}

ExampleText  == << <<"#", "k">>, <<"SUPABASE_ORG_ID", "=">> >>
TemplateText == << <<"OTHER", "=", "k">> >>

\* The organization id is a command-line argument (any string).
OrgValues ==
    { <<"k">>, <<"k", "=">>, <<"#">>,
      <<BS, BS>>, <<BS, "k">>, <<"k", BS>>, <<BS, "=">> }

\* Database passwords: strings over the generators' alphabets, which hold
\* letters, "=" and "#" and no backslash.
PwValues == { <<"k">>, <<"=", "k">>, <<"#", "k">> }

CredSet ==
    { [project_id  |-> <<"r">>,
       project_url |-> ProjectUrl(<<"r">>),
       anon_key    |-> a,
       service_key |-> <<"j">>,
       db_password |-> p,
       org_id      |-> o] : a \in {<<>>, <<"j">>}, p \in PwValues, o \in OrgValues }

(***************************************************************************)
(* read_env_file (link.py, migrate.py, link-and-migrate.py): the parse of  *)
(* one line                                                                *)
(***************************************************************************)
RECURSIVE LStrip(_)
LStrip(l) == IF l # <<>> /\ Head(l) = " " THEN LStrip(Tail(l)) ELSE l

RECURSIVE RStrip(_)
RStrip(l) ==
    IF l # <<>> /\ l[Len(l)] = " " THEN RStrip(SubSeq(l, 1, Len(l) - 1)) ELSE l

\* line.strip()
Strip(l) == RStrip(LStrip(l))

\* Index of the first "=" of a line, 0 when it has none.
FirstEq(l) ==
    IF \E i \in 1..Len(l) : l[i] = "="
    THEN CHOOSE i \in 1..Len(l) : l[i] = "=" /\ \A j \in 1..(i - 1) : l[j] # "="
    ELSE 0

\* "if line and not line.startswith('#') and '=' in line"
IsAssignment(line) ==
    LET l == Strip(line)
    IN  l # <<>> /\ Head(l) # "#" /\ FirstEq(l) > 0

\* key, value = line.split("=", 1)
LineKey(line) == LET l == Strip(line) IN SubSeq(l, 1, FirstEq(l) - 1)
LineValue(line) == LET l == Strip(line) IN SubSeq(l, FirstEq(l) + 1, Len(l))

\* env_vars.get(key) on the dict read_env_file returns: the value of the
\* last assignment of the key, <<>> (None) when the file has none.
EnvGet(text, key) ==
    LET hits == {i \in 1..Len(text) :
                    IsAssignment(text[i]) /\ LineKey(text[i]) = key}
    IN  IF hits = {} THEN <<>>
        ELSE LineValue(text[CHOOSE i \in hits : \A h \in hits : h <= i])

(***************************************************************************)
(* The command runner                                                      *)
(***************************************************************************)
\* Exit codes of an external command.
ExitCodes == {0, 1, 2}

\* Mutant of run_command: a non-zero exit code is fatal whatever the flag.
run_commandAlwaysFatal(check, rc) == [fatal |-> rc # 0, returncode |-> rc]

\* run_command(cmd, check, capture_output) for a command that exits with
\* rc: subprocess.run raises CalledProcessError only for check=True and a
\* non-zero exit code, and the handler then calls error(), which exits;
\* otherwise the CompletedProcess is returned with the command's exit code.
run_command(check, rc) ==
    [fatal |-> check /\ rc # 0, returncode |-> rc]

\* What error(f"Command failed: {e}") prints for CalledProcessError e, whose
\* text is "Command '<cmd>' returned non-zero exit status <rc>.": the
\* command and its exit code, and not the captured stderr.
CommandFailedMsg(op, rc) ==
    [text |-> "Command failed", cmd |-> op, rc |-> rc, stderr |-> FALSE]

\* What error(message) prints elsewhere.
Msg(text) == [text |-> text, cmd |-> "", rc |-> 0, stderr |-> FALSE]

NoMsg == Msg("")

\* The record kept of a run_command call.
Cmd(op, check, capture, a, rc, out) ==
    [op |-> op, check |-> check, capture |-> capture, attempt |-> a,
     rc |-> rc, out |-> out,
     fatal |-> run_command(check, rc).fatal,
     returncode |-> run_command(check, rc).returncode]

NoCmd ==
    [op |-> "none", check |-> FALSE, capture |-> FALSE, attempt |-> 0,
     rc |-> 0, out |-> "", fatal |-> FALSE, returncode |-> 0]

\* The history of a run: the operations whose command was started, in
\* order (one entry per first attempt); the operations one of whose
\* attempts exited zero, among those whose result the caller looks at; the
\* credentials put on command lines.
NoHist == [entered |-> <<>>, zero |-> {}, passed |-> {}]

\* Mutant of Passed: the link command gets the password of the command
\* line of the script instead of the generated one.
PassedCliPassword(op) ==
    CASE op = "create" ->
            {[op |-> op, project_id |-> <<>>, db_password |-> loc.dbPassword]}
      [] op = "link" ->
            {[op |-> op, project_id |-> loc.projectId,
              db_password |-> cfg.cliDbPassword]}
      [] op \in {"api_keys_plain", "api_keys", "show"} ->
            {[op |-> op, project_id |-> loc.projectId, db_password |-> <<>>]}
      [] OTHER -> {}

\* The project id and database password on the command line of op, taken
\* from main()'s locals at the time of the call.
Passed(op) ==
    CASE op = "create" ->
            {[op |-> op, project_id |-> <<>>, db_password |-> loc.dbPassword]}
      [] op = "link" ->
            {[op |-> op, project_id |-> loc.projectId,
              db_password |-> loc.dbPassword]}
      [] op \in {"api_keys_plain", "api_keys", "show"} ->
            {[op |-> op, project_id |-> loc.projectId, db_password |-> <<>>]}
      [] OTHER -> {}

\* The calls whose result is dropped: "supabase login" and the first,
\* uncaptured api-keys command of setup.py.
ResultDropped(op) == op \in {"login", "api_keys_plain"}

\* run_command was called and c is what came of it.  (cfg.history: the
\* history of the run is kept; it is not when termination is checked, the
\* history of a loop that need not end having no bound.)
Ran(c) ==
    /\ last' = c
    /\ hist' = IF ~cfg.history THEN hist
               ELSE
               [entered |-> IF c.attempt = 1 THEN Append(hist.entered, c.op)
                            ELSE hist.entered,
                zero    |-> IF c.rc = 0 /\ ~ResultDropped(c.op)
                            THEN hist.zero \cup {c.op}
                            ELSE hist.zero,
                passed  |-> hist.passed \cup Passed(c.op)]

(***************************************************************************)
(* Outputs of the external CLI, by what the scripts' parsing makes of them *)
(***************************************************************************)
\* "projects list -o json": no output; no JSON; an empty list; a list
\* without the project; a list with the project and its id; a list with
\* the project and no id; JSON that is no list of objects: null (false and
\* not iterable), or a value whose elements have no get() (an object with a
\* member, a list of numbers).
ListOuts == {"empty", "badjson", "nolist", "other", "match", "match_noid",
             "json_null", "json_noobj"}

\* "projects api-keys -o json": no output; no JSON and no key pattern in
\* it; no JSON but both key patterns; no JSON, both patterns, an empty anon
\* key; JSON with both keys; JSON without one of them.
KeyOuts == {"empty", "badjson_none", "badjson_both", "badjson_blank",
            "json_both", "json_partial", "json_null", "json_noobj"}

\* "projects show": with or without the two key patterns.
ShowOuts == {"empty", "show_keys", "show_none"}

\* "supabase status": with or without "Project ID:".
StatusOuts == {"empty", "has_project_id"}

\* Any other command: its output is not looked at.
PlainOuts == {"text"}

\* What "projects list -o json" can print to setup.py's existence check.
\* createdBefore: an earlier run of setup.py created the project of this
\* name, so that a listing that parses as JSON holds the project; a failed
\* command or an unreadable output can still happen.
ExistsOuts(createdBefore) ==
    IF createdBefore
    THEN {"empty", "badjson", "match", "match_noid"}
    ELSE ListOuts

\* Mutant of ValidJson: no output raises JSONDecodeError.
ValidJsonAlways(out) == TRUE

\* json.loads(result.stdout) succeeds.
ValidJson(out) == out \in {"nolist", "other", "match", "match_noid",
                          "json_both", "json_partial",
                          "json_null", "json_noobj"}

\* "if not projects": the loaded value is false.
Falsy(out) == out \in {"nolist", "json_null"}

\* "for project in projects" raises TypeError: the value is not iterable.
NotIterable(out) == out = "json_null"

\* "project.get(...)" raises AttributeError: an element is no object.
NoGet(out) == out = "json_noobj"

\* "for project in projects: if project.get('name') == project_name".
NameListed(out) == out \in {"match", "match_noid"}

ProjectIds == { <<"r">> }
ApiKey == <<"j">>
None == <<>>

(***************************************************************************)
(* Attempt bounds of setup.py's retry loops: range(1, N + 1)               *)
(***************************************************************************)
ExistsAttempts == 3
CreateAttempts == 3
IdAttempts == 5
KeysAttempts == 5
LinkAttempts == 5
SyncAttempts == 3
PushAttempts == 3
SiteAttempts == 3
RedirectAttempts == 3

\* What each loop of setup.py does after a failed attempt a: "retry" (sleep
\* and go round again), "return" (leave the loop and return the absent
\* result or carry on), "error" (call error()).
check_project_exists_after_fail(a) ==
    IF a < ExistsAttempts THEN "retry" ELSE "return"

create_project_after_fail(a) ==
    IF a < CreateAttempts THEN "retry" ELSE "return"

get_project_id_after_fail(a) ==
    IF a < IdAttempts THEN "retry" ELSE "return"

\* get_project_id: "time.sleep(10)" after a failed attempt.
get_project_id_sleep(a) == 10

\* Mutant of get_api_keys_sleep: the same wait after every attempt.
get_api_keys_sleepFixed(a) == 5

\* get_api_keys: "time.sleep(attempt * 5)" after a failed attempt.
get_api_keys_sleep(a) == a * 5

\* Mutant of get_api_keys_after_fail: the loop has one more round.
get_api_keys_after_failOneMore(a) ==
    IF a < KeysAttempts + 1 THEN "retry" ELSE "return"

get_api_keys_after_fail(a) ==
    IF a < KeysAttempts THEN "retry" ELSE "return"

\* Mutant of link_project_after_fail: the loop ends and False is returned.
link_project_after_failReturn(a) ==
    IF a < LinkAttempts THEN "retry" ELSE "return"

link_project_after_fail(a) ==
    IF a = LinkAttempts THEN "error" ELSE "retry"

sync_remote_changes_after_fail(a) ==
    IF a = SyncAttempts THEN "error" ELSE "retry"

apply_migrations_after_fail(a) ==
    IF a = PushAttempts THEN "error" ELSE "retry"

setup_auth_site_after_fail(a) ==
    IF a = SiteAttempts THEN "error" ELSE "retry"

setup_auth_redirect_after_fail(a) ==
    IF a = RedirectAttempts THEN "error" ELSE "retry"

(***************************************************************************)
(* The check flag each script passes to run_command, per command           *)
(***************************************************************************)
SetupCheck(op) == FALSE

CreateCheck(op) == op # "login_check"

LinkCheck(op) == op # "login_check"

MigrateCheck(op) == op # "status"

\* Mutant of LinkMigCheck: the migration push is run with check=False.
LinkMigCheckPushUnchecked(op) == op \notin {"login_check", "push"}

LinkMigCheck(op) == op # "login_check"

CheckFlag(script, op) ==
    CASE script = "setup"   -> SetupCheck(op)
      [] script = "create"  -> CreateCheck(op)
      [] script = "link"    -> LinkCheck(op)
      [] script = "migrate" -> MigrateCheck(op)
      [] script = "linkmig" -> LinkMigCheck(op)

(***************************************************************************)
(* One run of a script: control state                                      *)
(***************************************************************************)
Scripts == {"setup", "create", "link", "migrate", "linkmig"}

Running == status = "running"

\* main() moves on to operation p, at its first or a(th) attempt.
Goto(p, a) ==
    /\ pc' = p
    /\ attempt' = a
    /\ UNCHANGED <<status, exitAt, errorMsg>>

\* error(message) called in function fn: print and sys.exit(1).
Exit1(fn, msg) ==
    /\ status' = "exit1"
    /\ exitAt' = fn
    /\ errorMsg' = msg
    /\ UNCHANGED <<pc, attempt>>

\* main() returns.
Exit0 ==
    /\ status' = "exit0"
    /\ UNCHANGED <<pc, attempt, exitAt, errorMsg>>

Advance(p) == IF p = "done" THEN Exit0 ELSE Goto(p, 1)

\* The except branch of run_command.
Fatal(c) == Exit1("run_command", CommandFailedMsg(c.op, c.rc))

\* An exception no except clause catches: the interpreter prints the
\* traceback and the process ends with exit status 1.
Raise(fn, exc) == Exit1(fn, Msg(exc))

\* The operation that follows the login in each script.
AfterLogin(script) ==
    IF script \in {"setup", "create"} THEN "name" ELSE "read_env"

(***************************************************************************)
(* check_supabase_login, login_to_supabase                                 *)
(***************************************************************************)
\* setup.py returns True without a command when a token file exists.
Setup_check_supabase_login_token ==
    /\ Running /\ pc = "login_check"
    /\ cfg.script = "setup" /\ cfg.hasToken
    /\ Goto("name", 1)
    /\ UNCHANGED <<gen, cfg, last, hist, slept, loc, pwFile, prompts, envVars>>

\* "projects list" as a login test, check=False.
\* Mutant of check_supabase_login_result: the login test always passes.
check_supabase_login_resultAlways(returncode) == TRUE

\* "return result.returncode == 0".
check_supabase_login_result(returncode) == returncode = 0

check_supabase_login ==
    /\ Running /\ pc = "login_check"
    /\ cfg.script = "setup" => ~cfg.hasToken
    /\ \E rc \in ExitCodes, out \in PlainOuts :
          LET c == Cmd("login_check", CheckFlag(cfg.script, "login_check"),
                       TRUE, 1, rc, out)
          IN  /\ Ran(c)
              /\ IF c.fatal THEN Fatal(c)
                 ELSE IF check_supabase_login_result(c.returncode)
                 THEN Goto(AfterLogin(cfg.script), 1)
                 ELSE Goto("login", 1)
    /\ slept' = 0
    /\ UNCHANGED <<gen, cfg, loc, pwFile, prompts, envVars>>

\* setup.py: "supabase login" with check=False, then time.sleep(3).
Setup_login_to_supabase ==
    /\ Running /\ pc = "login" /\ cfg.script = "setup"
    /\ \E rc \in ExitCodes, out \in PlainOuts :
          LET c == Cmd("login", SetupCheck("login"), FALSE, 1, rc, out)
          IN  /\ Ran(c)
              /\ IF c.fatal THEN Fatal(c) /\ slept' = 0
                 ELSE Goto("name", 1) /\ slept' = 3
    /\ UNCHANGED <<gen, cfg, loc, pwFile, prompts, envVars>>

\* The other scripts: "supabase login" with check=True.
login_to_supabase ==
    /\ Running /\ pc = "login" /\ cfg.script # "setup"
    /\ \E rc \in ExitCodes, out \in PlainOuts :
          LET c == Cmd("login", CheckFlag(cfg.script, "login"), FALSE, 1, rc, out)
          IN  /\ Ran(c)
              /\ IF c.fatal THEN Fatal(c)
                 ELSE Goto(AfterLogin(cfg.script), 1)
    /\ slept' = 0
    /\ UNCHANGED <<gen, cfg, loc, pwFile, prompts, envVars>>

(***************************************************************************)
(* get_project_name                                                        *)
(***************************************************************************)
\* What the user types at a prompt: nothing, a name, or Ctrl-C.
Inputs == {"", "q", "INTERRUPT"}

CancelledMsg == "Project creation cancelled by user"

\* Mutant of KeyboardInterruptCaught: the interruption is reported like an
\* empty answer.
KeyboardInterruptAsEmptyName(fn) ==
    Exit1(fn, Msg("Project name cannot be empty"))

\* "except KeyboardInterrupt: print(); error('Project creation cancelled by
\* user')" in fn.
KeyboardInterruptCaught(fn) == Exit1(fn, Msg(CancelledMsg))

\* setup.py (argument, package.json or default) and create-project.py in
\* non-interactive mode: no prompt.
get_project_name_default ==
    /\ Running /\ pc = "name"
    /\ cfg.script = "setup" \/ (cfg.script = "create" /\ cfg.nonInteractive)
    /\ loc' = [loc EXCEPT !.projectName = cfg.defaultName]
    /\ Goto("exists", 1)
    /\ UNCHANGED <<gen, cfg, last, hist, slept, pwFile, prompts, envVars>>

\* create-project.py, interactive: input().strip() or the default;
\* KeyboardInterrupt calls error().
Create_get_project_name_prompt ==
    /\ Running /\ pc = "name"
    /\ cfg.script = "create" /\ ~cfg.nonInteractive
    /\ \E inp \in Inputs :
          IF inp = "INTERRUPT"
          THEN /\ KeyboardInterruptCaught("get_project_name")
               /\ loc' = [loc EXCEPT !.answer = inp]
          ELSE /\ loc' = [loc EXCEPT !.answer = inp,
                                     !.projectName =
                              IF inp = "" THEN cfg.defaultName ELSE inp]
               /\ Goto("exists", 1)
    /\ UNCHANGED <<gen, cfg, last, hist, slept, pwFile, prompts, envVars>>

(***************************************************************************)
(* check_project_exists and main()'s use of its result                     *)
(***************************************************************************)
YesNo(b) == IF b THEN "yes" ELSE "no"

\* setup.py: up to ExistsAttempts attempts, check=False, time.sleep(1)
\* after every attempt that did not return; False when none returned.
Setup_check_project_exists ==
    /\ Running /\ pc = "exists" /\ cfg.script = "setup"
    /\ \E rc \in ExitCodes, out \in ExistsOuts(cfg.createdBefore) :
          LET c == Cmd("list_exists", SetupCheck("list_exists"), TRUE,
                       attempt, rc, out)
              d == check_project_exists_after_fail(attempt)
          IN  /\ Ran(c)
              /\ IF c.fatal THEN Fatal(c) /\ slept' = 0 /\ UNCHANGED loc
                 ELSE IF c.returncode = 0 /\ ~Falsy(out) /\ NoGet(out)
                 THEN /\ Raise("check_project_exists", "AttributeError")
                      /\ slept' = 0
                      /\ UNCHANGED loc
                 ELSE IF c.returncode = 0 /\ out # "empty" /\ ValidJson(out)
                 THEN /\ loc' = [loc EXCEPT !.existsRet = YesNo(NameListed(out)),
                                     !.checkedName = loc.projectName]
                      /\ Goto("exists_ret", 1)
                      /\ slept' = 0
                 ELSE /\ slept' = 1
                      /\ CASE d = "retry" ->
                                 Goto("exists", attempt + 1) /\ UNCHANGED loc
                           [] d = "return" ->
                                 /\ loc' = [loc EXCEPT !.existsRet = "no",
                                                  !.checkedName = loc.projectName]
                                 /\ Goto("exists_ret", 1)
    /\ UNCHANGED <<gen, cfg, pwFile, prompts, envVars>>

\* create-project.py: one command, check=True; json.loads on its output,
\* error() on JSONDecodeError.  p is where main() goes with the result.
CreateCheckExists(p) ==
    \E rc \in ExitCodes, out \in ListOuts :
        LET c == Cmd("list_exists", CreateCheck("list_exists"), TRUE, 1, rc, out)
        IN  /\ Ran(c)
            /\ IF c.fatal THEN Fatal(c) /\ UNCHANGED loc
               ELSE IF ~ValidJson(out)
               THEN /\ Exit1("check_project_exists",
                             Msg("Invalid JSON response from Supabase CLI"))
                    /\ UNCHANGED loc
               ELSE IF ~Falsy(out) /\ NoGet(out)
               THEN /\ Raise("check_project_exists", "AttributeError")
                    /\ UNCHANGED loc
               ELSE /\ loc' = [loc EXCEPT !.existsRet = YesNo(NameListed(out)),
                                     !.checkedName = loc.projectName]
                    /\ Goto(p, 1)

Create_check_project_exists ==
    /\ Running /\ pc = "exists" /\ cfg.script = "create"
    /\ CreateCheckExists("exists_ret")
    /\ slept' = 0
    /\ UNCHANGED <<gen, cfg, pwFile, prompts, envVars>>

\* Mutant of Setup_main_exists: main() goes on to create_project whatever
\* the check returned.
Setup_main_existsIgnored ==
    /\ Running /\ pc = "exists_ret" /\ cfg.script = "setup"
    /\ Goto("create_begin", 1)
    /\ UNCHANGED <<gen, cfg, last, hist, slept, loc, pwFile, prompts, envVars>>

\* setup.py main(): "if check_project_exists(project_name): error(...)".
Setup_main_exists ==
    /\ Running /\ pc = "exists_ret" /\ cfg.script = "setup"
    /\ IF loc.existsRet = "yes"
       THEN Exit1("main", Msg("Project already exists"))
       ELSE Goto("create_begin", 1)
    /\ UNCHANGED <<gen, cfg, last, hist, slept, loc, pwFile, prompts, envVars>>

\* create-project.py main(): error() in non-interactive mode, else the
\* rename loop.
Create_main_exists ==
    /\ Running /\ pc = "exists_ret" /\ cfg.script = "create"
    /\ IF loc.existsRet = "yes"
       THEN IF cfg.nonInteractive
            THEN Exit1("main", Msg("Project already exists"))
            ELSE Goto("rename_check", 1)
       ELSE Goto("create_begin", 1)
    /\ UNCHANGED <<gen, cfg, last, hist, slept, loc, pwFile, prompts, envVars>>

\* "while check_project_exists(project_name):" evaluates the condition by
\* a further check.
Create_rename_check ==
    /\ Running /\ pc = "rename_check" /\ cfg.script = "create"
    /\ CreateCheckExists("rename_ret")
    /\ slept' = 0
    /\ UNCHANGED <<gen, cfg, pwFile, prompts, envVars>>

\* The loop is entered when the name is taken and left when it is not.
\* (The model stops a run at MaxPrompts answered prompts.)
Create_rename_ret ==
    /\ Running /\ pc = "rename_ret" /\ cfg.script = "create"
    /\ loc.existsRet = "yes" => prompts < MaxPrompts
    /\ IF loc.existsRet = "yes"
       THEN Goto("rename_prompt", 1)
       ELSE Goto("create_begin", 1)
    /\ UNCHANGED <<gen, cfg, last, hist, slept, loc, pwFile, prompts, envVars>>

\* The body of the loop: an empty answer and KeyboardInterrupt call
\* error(); a name replaces project_name.
Create_rename_prompt ==
    /\ Running /\ pc = "rename_prompt" /\ cfg.script = "create"
    /\ \E inp \in Inputs :
          IF inp = ""
          THEN /\ Exit1("main", Msg("Project name cannot be empty"))
               /\ loc' = [loc EXCEPT !.answer = inp]
               /\ UNCHANGED prompts
          ELSE IF inp = "INTERRUPT"
          THEN /\ KeyboardInterruptCaught("main")
               /\ loc' = [loc EXCEPT !.answer = inp]
               /\ UNCHANGED prompts
          ELSE /\ loc' = [loc EXCEPT !.answer = inp, !.projectName = inp]
               /\ prompts' = IF cfg.history THEN prompts + 1 ELSE prompts
               /\ Goto("rename_check", 1)
    /\ UNCHANGED <<gen, cfg, last, hist, slept, pwFile, envVars>>

(***************************************************************************)
(* create_project, get_project_id                                          *)
(***************************************************************************)
\* The head of create_project: generate_secure_password(); setup.py also
\* writes the password to template_postgres_pw.
create_project_begin ==
    /\ Running /\ pc = "create_begin"
    /\ \E pw \in PwValues :
          /\ loc' = [loc EXCEPT !.dbPassword = pw]
          /\ pwFile' = IF cfg.script = "setup" THEN <<pw>> ELSE pwFile
    /\ Goto("create", 1)
    /\ UNCHANGED <<gen, cfg, last, hist, slept, prompts, envVars>>

\* setup.py: up to CreateAttempts attempts, check=False; time.sleep(1)
\* between attempts; after the last failed attempt the function carries on
\* with get_project_id.
Setup_create_project ==
    /\ Running /\ pc = "create" /\ cfg.script = "setup"
    /\ \E rc \in ExitCodes, out \in PlainOuts :
          LET c == Cmd("create", SetupCheck("create"), TRUE, attempt, rc, out)
              d == create_project_after_fail(attempt)
          IN  /\ Ran(c)
              /\ IF c.fatal THEN Fatal(c) /\ slept' = 0
                 ELSE IF c.returncode = 0 THEN Goto("get_id", 1) /\ slept' = 0
                 ELSE CASE d = "retry" -> Goto("create", attempt + 1) /\ slept' = 1
                        [] d = "return" -> Goto("get_id", 1) /\ slept' = 0
    /\ UNCHANGED <<gen, cfg, loc, pwFile, prompts, envVars>>

\* create-project.py: one command, check=True.
Create_create_project ==
    /\ Running /\ pc = "create" /\ cfg.script = "create"
    /\ \E rc \in ExitCodes, out \in PlainOuts :
          LET c == Cmd("create", CreateCheck("create"), TRUE, 1, rc, out)
          IN  /\ Ran(c)
              /\ IF c.fatal THEN Fatal(c) ELSE Goto("get_id", 1)
    /\ slept' = 0
    /\ UNCHANGED <<gen, cfg, loc, pwFile, prompts, envVars>>

\* setup.py: up to IdAttempts attempts, check=False; the id of the listed
\* project is returned; time.sleep(10) after every other attempt; None
\* when no attempt returned.
\* Mutant of get_project_id_found: the exit code is not looked at.
get_project_id_foundAnyExit(returncode, out) == out = "match"

\* "if result.returncode == 0 and result.stdout" and the listed project
\* has an id.
get_project_id_found(returncode, out) == returncode = 0 /\ out = "match"

Setup_get_project_id ==
    /\ Running /\ pc = "get_id" /\ cfg.script = "setup"
    /\ \E rc \in ExitCodes, out \in ListOuts, id \in ProjectIds :
          LET c == Cmd("list_id", SetupCheck("list_id"), TRUE, attempt, rc, out)
              d == get_project_id_after_fail(attempt)
          IN  /\ Ran(c)
              /\ IF c.fatal THEN Fatal(c) /\ slept' = 0 /\ UNCHANGED loc
                 ELSE IF c.returncode = 0 /\ (NotIterable(out) \/ NoGet(out))
                 THEN /\ Raise("get_project_id",
                               IF NotIterable(out) THEN "TypeError"
                               ELSE "AttributeError")
                      /\ slept' = 0
                      /\ UNCHANGED loc
                 ELSE IF get_project_id_found(c.returncode, out)
                 THEN /\ loc' = [loc EXCEPT !.projectId = id]
                      /\ Goto("get_id_ret", 1)
                      /\ slept' = 0
                 ELSE /\ slept' = get_project_id_sleep(attempt)
                      /\ CASE d = "retry" ->
                                 Goto("get_id", attempt + 1) /\ UNCHANGED loc
                           [] d = "return" ->
                                 /\ loc' = [loc EXCEPT !.projectId = None]
                                 /\ Goto("get_id_ret", 1)
    /\ UNCHANGED <<gen, cfg, pwFile, prompts, envVars>>

\* setup.py create_project: "if not project_id: error(...)".
Setup_create_project_ret ==
    /\ Running /\ pc = "get_id_ret" /\ cfg.script = "setup"
    /\ IF loc.projectId = None
       THEN Exit1("create_project", Msg("Failed to retrieve project ID"))
       ELSE Goto("link", 1)
    /\ UNCHANGED <<gen, cfg, last, hist, slept, loc, pwFile, prompts, envVars>>

\* create-project.py: one command, check=True; error() inside the function
\* when the output is no JSON or does not list the project with an id.
Create_get_project_id ==
    /\ Running /\ pc = "get_id" /\ cfg.script = "create"
    /\ \E rc \in ExitCodes, out \in ListOuts, id \in ProjectIds :
          LET c == Cmd("list_id", CreateCheck("list_id"), TRUE, 1, rc, out)
          IN  /\ Ran(c)
              /\ IF c.fatal THEN Fatal(c) /\ UNCHANGED loc
                 ELSE IF ~ValidJson(out)
                 THEN /\ Exit1("get_project_id", Msg("Invalid JSON response"))
                      /\ UNCHANGED loc
                 ELSE IF NotIterable(out) \/ NoGet(out)
                 THEN /\ Raise("get_project_id",
                               IF NotIterable(out) THEN "TypeError"
                               ELSE "AttributeError")
                      /\ UNCHANGED loc
                 ELSE IF out = "match"
                 THEN /\ loc' = [loc EXCEPT !.projectId = id]
                      /\ Goto("keys", 1)
                 ELSE /\ Exit1("get_project_id", Msg("Project not found in projects list"))
                      /\ UNCHANGED loc
    /\ slept' = 0
    /\ UNCHANGED <<gen, cfg, pwFile, prompts, envVars>>

(***************************************************************************)
(* The retry loops of setup.py's mutating operations                       *)
(***************************************************************************)
\* One attempt of a loop "run the command with check=False; on exit code
\* 0 leave the loop; else error() or time.sleep(secs) by decision d".
\* A loop that ends without error() makes its function return, and main()
\* goes on to p whatever was returned.
SetupAttempt(op, d, secs, p, fn, text) ==
    /\ Running /\ cfg.script = "setup"
    /\ \E rc \in ExitCodes, out \in PlainOuts :
          LET c == Cmd(op, SetupCheck(op), TRUE, attempt, rc, out)
          IN  /\ Ran(c)
              /\ IF c.fatal THEN Fatal(c) /\ slept' = 0
                 ELSE IF c.returncode = 0 THEN Advance(p) /\ slept' = 0
                 ELSE CASE d = "retry" -> Goto(pc, attempt + 1) /\ slept' = secs
                        [] d = "error" -> Exit1(fn, Msg(text)) /\ slept' = 0
                        [] d = "return" -> Advance(p) /\ slept' = 0
    /\ UNCHANGED <<gen, cfg, loc, pwFile, prompts, envVars>>

Setup_link_project ==
    /\ pc = "link"
    /\ SetupAttempt("link", link_project_after_fail(attempt), 10, "keys_plain",
                    "link_project", "Failed to link project after 5 attempts")

Setup_sync_remote_changes ==
    /\ pc = "sync"
    /\ SetupAttempt("sync", sync_remote_changes_after_fail(attempt), 5, "push",
                    "sync_remote_changes",
                    "Failed to sync remote changes after 3 attempts")

Setup_apply_migrations ==
    /\ pc = "push"
    /\ SetupAttempt("push", apply_migrations_after_fail(attempt), 5, "auth_site",
                    "apply_migrations", "Failed to push migrations after 3 attempts")

Setup_setup_auth_site ==
    /\ pc = "auth_site"
    /\ SetupAttempt("auth_site", setup_auth_site_after_fail(attempt), 3,
                    "auth_redirect", "setup_auth_urls",
                    "Failed to set auth site URL after 3 attempts")

Setup_setup_auth_redirect ==
    /\ pc = "auth_redirect"
    /\ SetupAttempt("auth_redirect", setup_auth_redirect_after_fail(attempt), 3,
                    "done", "setup_auth_urls",
                    "Failed to set auth redirect URLs after 3 attempts")

(***************************************************************************)
(* get_api_keys                                                            *)
(***************************************************************************)
\* setup.py, first attempt: the plain command, check=False, output not
\* captured and its result not used.
Setup_get_api_keys_plain ==
    /\ Running /\ pc = "keys_plain" /\ cfg.script = "setup"
    /\ \E rc \in ExitCodes, out \in PlainOuts :
          LET c == Cmd("api_keys_plain", SetupCheck("api_keys_plain"), FALSE,
                       1, rc, out)
          IN  /\ Ran(c)
              /\ IF c.fatal THEN Fatal(c) ELSE Goto("keys", 1)
    /\ slept' = 0
    /\ UNCHANGED <<gen, cfg, loc, pwFile, prompts, envVars>>

\* setup.py: up to KeysAttempts attempts, check=False.  JSON with both
\* keys returns them; on JSONDecodeError the two patterns are searched in
\* the raw text and, when both match, their groups are returned; else
\* time.sleep(attempt * 5).  After the loop the "projects show" command
\* follows.
Setup_get_api_keys ==
    /\ Running /\ pc = "keys" /\ cfg.script = "setup"
    /\ \E rc \in ExitCodes, out \in KeyOuts :
          LET c == Cmd("api_keys", SetupCheck("api_keys"), TRUE, attempt, rc, out)
              d == get_api_keys_after_fail(attempt)
          IN  /\ Ran(c)
              /\ IF c.fatal THEN Fatal(c) /\ slept' = 0 /\ UNCHANGED loc
                 ELSE IF c.returncode = 0 /\ (NotIterable(out) \/ NoGet(out))
                 THEN /\ Raise("get_api_keys",
                               IF NotIterable(out) THEN "TypeError"
                               ELSE "AttributeError")
                      /\ slept' = 0
                      /\ UNCHANGED loc
                 ELSE IF c.returncode = 0 /\ out \in {"json_both", "badjson_both"}
                 THEN /\ loc' = [loc EXCEPT !.anonKey = ApiKey, !.serviceKey = ApiKey]
                      /\ Goto("keys_ret", 1)
                      /\ slept' = 0
                 ELSE IF c.returncode = 0 /\ out = "badjson_blank"
                 THEN /\ loc' = [loc EXCEPT !.anonKey = <<>>, !.serviceKey = ApiKey]
                      /\ Goto("keys_ret", 1)
                      /\ slept' = 0
                 ELSE /\ slept' = get_api_keys_sleep(attempt)
                      /\ UNCHANGED loc
                      /\ CASE d = "retry" -> Goto("keys", attempt + 1)
                           [] d = "return" -> Goto("keys_show", 1)
    /\ UNCHANGED <<gen, cfg, pwFile, prompts, envVars>>

\* setup.py: the last approach, "projects show" with check=False; the keys
\* when both patterns match, else (None, None).
Setup_get_api_keys_show ==
    /\ Running /\ pc = "keys_show" /\ cfg.script = "setup"
    /\ \E rc \in ExitCodes, out \in ShowOuts :
          LET c == Cmd("show", SetupCheck("show"), TRUE, 1, rc, out)
          IN  /\ Ran(c)
              /\ IF c.fatal THEN Fatal(c) /\ UNCHANGED loc
                 ELSE /\ loc' = IF c.returncode = 0 /\ out = "show_keys"
                                THEN [loc EXCEPT !.anonKey = ApiKey,
                                                 !.serviceKey = ApiKey]
                                ELSE [loc EXCEPT !.anonKey = None,
                                                 !.serviceKey = None]
                      /\ Goto("keys_ret", 1)
    /\ slept' = 0
    /\ UNCHANGED <<gen, cfg, pwFile, prompts, envVars>>

\* Mutant of Setup_main_keys: main() does not test the keys.
Setup_main_keysUntested ==
    /\ Running /\ pc = "keys_ret" /\ cfg.script = "setup"
    /\ Goto("update_env", 1)
    /\ UNCHANGED <<gen, cfg, last, hist, slept, loc, pwFile, prompts, envVars>>

\* setup.py main(): "if not anon_key or not service_key: error(...)".
Setup_main_keys ==
    /\ Running /\ pc = "keys_ret" /\ cfg.script = "setup"
    /\ IF loc.anonKey = <<>> \/ loc.serviceKey = <<>>
       THEN Exit1("main", Msg("Failed to retrieve API keys"))
       ELSE Goto("update_env", 1)
    /\ UNCHANGED <<gen, cfg, last, hist, slept, loc, pwFile, prompts, envVars>>

\* create-project.py: one command, check=True; error() inside the function
\* when the output is no JSON or lacks a key.
Create_get_api_keys ==
    /\ Running /\ pc = "keys" /\ cfg.script = "create"
    /\ \E rc \in ExitCodes, out \in KeyOuts :
          LET c == Cmd("api_keys", CreateCheck("api_keys"), TRUE, 1, rc, out)
          IN  /\ Ran(c)
              /\ IF c.fatal THEN Fatal(c) /\ UNCHANGED loc
                 ELSE IF ~ValidJson(out)
                 THEN /\ Exit1("get_api_keys",
                               Msg("Invalid JSON response when retrieving API keys"))
                      /\ UNCHANGED loc
                 ELSE IF NotIterable(out) \/ NoGet(out)
                 THEN /\ Raise("get_api_keys",
                               IF NotIterable(out) THEN "TypeError"
                               ELSE "AttributeError")
                      /\ UNCHANGED loc
                 ELSE IF out = "json_both"
                 THEN /\ loc' = [loc EXCEPT !.anonKey = ApiKey, !.serviceKey = ApiKey]
                      /\ Goto("update_env", 1)
                 ELSE /\ Exit1("get_api_keys",
                               Msg("Failed to retrieve API keys from response"))
                      /\ UNCHANGED loc
    /\ slept' = 0
    /\ UNCHANGED <<gen, cfg, pwFile, prompts, envVars>>

(***************************************************************************)
(* main()'s call of update_env_file (setup.py, create-project.py)          *)
(***************************************************************************)
\* An re.error raised inside is not caught: the interpreter ends the
\* process with a traceback and exit status 1.
main_update_env_file ==
    /\ Running /\ pc = "update_env" /\ cfg.script \in {"setup", "create"}
    /\ LET c == [project_id  |-> loc.projectId,
                 project_url |-> ProjectUrl(loc.projectId),
                 anon_key    |-> loc.anonKey,
                 service_key |-> loc.serviceKey,
                 db_password |-> loc.dbPassword,
                 org_id      |-> cfg.orgId]
           r == update_env_file(variant, c, env, envExample, envTemplate)
       IN  /\ creds' = c
           /\ env' = r.post
           /\ calls' = Append(calls, r)
           /\ IF ~r.ok THEN Exit1("update_env_file", Msg("re.error"))
              ELSE IF cfg.script = "setup" THEN Goto("init", 1)
              ELSE Exit0
    /\ UNCHANGED <<variant, envExample, envTemplate>>
    /\ UNCHANGED <<gen, cfg, last, hist, slept, loc, pwFile, prompts>>

(***************************************************************************)
(* read_env_file and the choice of project id and password (link.py,       *)
(* link-and-migrate.py)                                                    *)
(***************************************************************************)
read_env_file ==
    /\ Running /\ pc = "read_env" /\ cfg.script \in {"link", "linkmig"}
    /\ IF env = NoFile
       THEN Exit1("read_env_file", Msg(".env file not found"))
       ELSE Goto("resolve", 1)
    /\ UNCHANGED <<gen, cfg, last, hist, slept, loc, pwFile, prompts, envVars>>

\* Mutant of ArgOrEnv: the environment file wins over the argument.
ArgOrEnvFileFirst(arg, key) ==
    IF EnvGet(env, key) # <<>> THEN EnvGet(env, key) ELSE arg

\* "args.project_id or env_vars.get(...)", "args.db_password or ...".
ArgOrEnv(arg, key) == IF arg # <<>> THEN arg ELSE EnvGet(env, key)

main_resolve_credentials ==
    /\ Running /\ pc = "resolve" /\ cfg.script \in {"link", "linkmig"}
    /\ LET id == ArgOrEnv(cfg.cliProjectId, K_PROJECT)
           pw == ArgOrEnv(cfg.cliDbPassword, K_DB_PASSWORD)
       IN  IF id = <<>>
           THEN /\ Exit1("main", Msg("Project ID not found"))
                /\ UNCHANGED loc
           ELSE IF pw = <<>>
           THEN /\ Exit1("main", Msg("Database password not found"))
                /\ loc' = [loc EXCEPT !.projectId = id]
           ELSE /\ loc' = [loc EXCEPT !.projectId = id, !.dbPassword = pw]
                /\ Goto("init", 1)
    /\ UNCHANGED <<gen, cfg, last, hist, slept, pwFile, prompts, envVars>>

(***************************************************************************)
(* initialize_supabase                                                     *)
(***************************************************************************)
\* Mutant of AfterInit: link.py and link-and-migrate.py initialize again.
AfterInitAgain(script) == IF script = "setup" THEN "sync" ELSE "init"

\* Where main() goes after initialize_supabase.
AfterInit(script) == IF script = "setup" THEN "sync" ELSE "link"

\* Nothing is run when the supabase directory exists.
initialize_supabase_skip ==
    /\ Running /\ pc = "init" /\ cfg.supabaseDir
    /\ Goto(AfterInit(cfg.script), 1)
    /\ UNCHANGED <<gen, cfg, last, hist, slept, loc, pwFile, prompts, envVars>>

\* setup.py: check=False and error() on a non-zero exit code; link.py and
\* link-and-migrate.py: check=True.
initialize_supabase ==
    /\ Running /\ pc = "init" /\ ~cfg.supabaseDir
    /\ \E rc \in ExitCodes, out \in PlainOuts :
          LET c == Cmd("init", CheckFlag(cfg.script, "init"), TRUE, 1, rc, out)
          IN  /\ Ran(c)
              /\ IF c.fatal THEN Fatal(c)
                 ELSE IF cfg.script = "setup" /\ c.returncode # 0
                 THEN Exit1("initialize_supabase", Msg("Failed to initialize Supabase"))
                 ELSE Goto(AfterInit(cfg.script), 1)
    /\ slept' = 0
    /\ UNCHANGED <<gen, cfg, loc, pwFile, prompts, envVars>>

(***************************************************************************)
(* The single-command operations of link.py, migrate.py and                *)
(* link-and-migrate.py                                                     *)
(***************************************************************************)
\* run_command(..., check=True) and, when it returns, on to p; the result
\* is not looked at.
FailFastStep(op, capture, p) ==
    /\ Running
    /\ \E rc \in ExitCodes, out \in PlainOuts :
          LET c == Cmd(op, CheckFlag(cfg.script, op), capture, 1, rc, out)
          IN  /\ Ran(c)
              /\ IF c.fatal THEN Fatal(c) ELSE Advance(p)
    /\ slept' = 0
    /\ UNCHANGED <<gen, cfg, loc, pwFile, prompts, envVars>>

\* link_project: error() on an empty password, else the link command.
link_project ==
    /\ pc = "link" /\ cfg.script \in {"link", "linkmig"}
    /\ IF loc.dbPassword = <<>>
       THEN /\ Running
            /\ Exit1("link_project", Msg("Database password is empty"))
            /\ UNCHANGED <<gen, cfg, last, hist, slept, loc, pwFile, prompts, envVars>>
       ELSE FailFastStep("link", FALSE,
                         IF cfg.script = "link" THEN "done" ELSE "sync")

\* migrate.py check_project_linked and main()'s use of it: False without
\* a command when .supabase/config.json does not exist.
Migrate_check_project_linked_nofile ==
    /\ Running /\ pc = "linked_check" /\ cfg.script = "migrate"
    /\ ~cfg.linkedCfg
    /\ Exit1("main", Msg("No project is linked"))
    /\ UNCHANGED <<gen, cfg, last, hist, slept, loc, pwFile, prompts, envVars>>

\* "supabase status" with check=False; linked when it exits 0 or its
\* output holds "Project ID:".
\* 'return result.returncode == 0 or "Project ID:" in (result.stdout or "")'.
check_project_linked_result(returncode, out) ==
    returncode = 0 \/ out = "has_project_id"

Migrate_check_project_linked ==
    /\ Running /\ pc = "linked_check" /\ cfg.script = "migrate"
    /\ cfg.linkedCfg
    /\ \E rc \in ExitCodes, out \in StatusOuts :
          LET c == Cmd("status", MigrateCheck("status"), TRUE, 1, rc, out)
          IN  /\ Ran(c)
              /\ IF c.fatal THEN Fatal(c)
                 ELSE IF check_project_linked_result(c.returncode, out)
                 THEN Goto("sync", 1)
                 ELSE Exit1("main", Msg("No project is linked"))
    /\ slept' = 0
    /\ UNCHANGED <<gen, cfg, loc, pwFile, prompts, envVars>>

sync_remote_changes ==
    /\ pc = "sync" /\ cfg.script \in {"migrate", "linkmig"}
    /\ FailFastStep("sync", TRUE, "push")

\* migrate.py skips the auth URLs with --skip-auth-setup.
apply_migrations ==
    /\ pc = "push" /\ cfg.script \in {"migrate", "linkmig"}
    /\ FailFastStep("push", FALSE,
                    IF cfg.script = "migrate" /\ cfg.skipAuth
                    THEN "done" ELSE "auth_site")

setup_auth_site ==
    /\ pc = "auth_site" /\ cfg.script \in {"migrate", "linkmig"}
    /\ FailFastStep("auth_site", TRUE, "auth_redirect")

setup_auth_redirect ==
    /\ pc = "auth_redirect" /\ cfg.script \in {"migrate", "linkmig"}
    /\ FailFastStep("auth_redirect", TRUE, "done")

(***************************************************************************)
(* What a run starts from                                                  *)
(***************************************************************************)
BaseCfg(s) ==
    [script |-> s, hasToken |-> FALSE, supabaseDir |-> FALSE,
     linkedCfg |-> FALSE, nonInteractive |-> FALSE, skipAuth |-> FALSE,
     cliProjectId |-> <<>>, cliDbPassword |-> <<>>,
     orgId |-> <<"k">>, defaultName |-> "p", createdBefore |-> FALSE,
     history |-> TRUE]

\* --org-id: the default or what the user gives.
RunOrgs == { <<"k">>, <<BS, "k">> }

RunConfigs ==
    {[BaseCfg("setup") EXCEPT !.hasToken = t, !.supabaseDir = d, !.orgId = o,
                              !.createdBefore = b] :
        t \in BOOLEAN, d \in BOOLEAN, o \in RunOrgs, b \in BOOLEAN}
    \cup
    {[BaseCfg("create") EXCEPT !.nonInteractive = n, !.orgId = o] :
        n \in BOOLEAN, o \in RunOrgs}
    \cup
    {[BaseCfg(s) EXCEPT !.supabaseDir = d, !.cliProjectId = i,
                        !.cliDbPassword = w] :
        s \in {"link", "linkmig"}, d \in BOOLEAN,
        i \in {<<>>, <<"r">>}, w \in {<<>>, <<"k">>}}
    \cup
    {[BaseCfg("migrate") EXCEPT !.linkedCfg = l, !.skipAuth = k] :
        l \in BOOLEAN, k \in BOOLEAN}

\* The .env a run finds.
RunEnvs(script) ==
    CASE script \in {"setup", "create"} ->
            {NoFile, << KeyValue(K_ORG, <<"k">>) >>}
      [] script \in {"link", "linkmig"} ->
            {NoFile,
             << KeyValue(K_PROJECT, <<"r">>), KeyValue(K_DB_PASSWORD, <<"=", "k">>) >>,
             << KeyValue(K_PROJECT, <<"r">>), KeyValue(K_DB_PASSWORD, <<>>) >>,
             << <<"#", "k">>, KeyValue(K_DB_PASSWORD, <<"k">>) >>}
      [] script = "migrate" -> {NoFile}

NoCreds ==
    [project_id |-> <<>>, project_url |-> <<>>, anon_key |-> <<>>,
     service_key |-> <<>>, db_password |-> <<>>, org_id |-> <<>>]

NoLoc ==
    [projectName |-> "", existsRet |-> "unset", dbPassword |-> None,
     projectId |-> None, anonKey |-> None, serviceKey |-> None,
     answer |-> "none", checkedName |-> ""]

(***************************************************************************)
(* generate_secure_password (setup.py, create-project.py)                  *)
(***************************************************************************)
\* string.ascii_letters, string.digits
AsciiLetters ==
    {"a", "b", "c", "d", "e", "f", "g", "h", "i", "j", "k", "l",
      "m", "n", "o", "p", "q", "r", "s", "t", "u", "v", "w", "x",
      "y", "z",
      "A", "B", "C", "D", "E", "F", "G", "H", "I", "J", "K", "L",
      "M", "N", "O", "P", "Q", "R", "S", "T", "U", "V", "W", "X",
      "Y", "Z"}

Digits ==
    {"0", "1", "2", "3", "4", "5", "6", "7", "8", "9"}

\* setup.py: the punctuation added to letters and digits.
SetupPunctuation ==
    {"!", "#", "$", "%", "&", "(", ")", "*", "+", ",", "-", ".",
      "/", ":", ";", "<", "=", ">", "?", "@", "[", "]", "^", "_",
      BT, "{", "|", "}", "~"}

\* create-project.py: the punctuation added to letters and digits.
CreatePunctuation ==
    {"#", "%", "+", ",", "-", ".", "/", ":", "=", "@", "^", "_",
      "{", "}"}

\* "alphabet" of setup.py, "safe_alphabet" of create-project.py.
Alphabet(script) ==
    AsciiLetters \cup Digits \cup
    (IF script = "setup" THEN SetupPunctuation ELSE CreatePunctuation)

\* "length: int = 16"
DefaultLength == 16

\* Lengths a call asks for besides the default.
MaxLength == 3

Lengths == (0..MaxLength) \cup {DefaultLength}

\* No call of the generator.
NoGen == [script |-> "none", length |-> 0, made |-> 0, ch |-> "", pc |-> "idle"]

\* The string under construction is kept by its length (made) and its last
\* character (ch): join() appends one secrets.choice(alphabet) per element
\* of range(length).
secrets_choice ==
    /\ gen.pc = "join" /\ gen.made < gen.length
    /\ \E c \in Alphabet(gen.script) :
          gen' = [gen EXCEPT !.made = @ + 1, !.ch = c]
    /\ UNCHANGED <<envVars, runVars>>

\* "return password": range(length) is used up.
return_password ==
    /\ gen.pc = "join" /\ gen.made = gen.length
    /\ gen' = [gen EXCEPT !.pc = "returned"]
    /\ UNCHANGED <<envVars, runVars>>

InitPw ==
    /\ gen \in {[NoGen EXCEPT !.script = s, !.length = n, !.pc = "join"] :
                    s \in {"setup", "create"}, n \in Lengths}
    /\ variant = "setup"
    /\ creds = NoCreds
    /\ env = NoFile
    /\ envExample = NoFile
    /\ envTemplate = NoFile
    /\ calls = <<>>
    /\ cfg = BaseCfg("none")
    /\ pc = "idle"
    /\ attempt = 0
    /\ status = "idle"
    /\ exitAt = ""
    /\ errorMsg = NoMsg
    /\ last = NoCmd
    /\ hist = NoHist
    /\ slept = 0
    /\ loc = NoLoc
    /\ pwFile = NoFile
    /\ prompts = 0

NextPw == secrets_choice \/ return_password

SpecPw == InitPw /\ [][NextPw]_vars

\* The start of a run of one of the five scripts from one of configs.
InitRun(configs) ==
    /\ gen = NoGen
    /\ cfg \in configs
    /\ env \in RunEnvs(cfg.script)
    /\ envExample = NoFile
    /\ envTemplate = NoFile
    /\ variant = IF cfg.script = "setup" THEN "setup" ELSE "create"
    /\ creds = NoCreds
    /\ calls = <<>>
    /\ pc = IF cfg.script = "migrate" THEN "linked_check" ELSE "login_check"
    /\ attempt = 1
    /\ status = "running"
    /\ exitAt = ""
    /\ errorMsg = NoMsg
    /\ last = NoCmd
    /\ hist = NoHist
    /\ slept = 0
    /\ loc = NoLoc
    /\ pwFile = NoFile
    /\ prompts = 0

Init == InitRun(RunConfigs)

Next ==
    \/ Setup_check_supabase_login_token
    \/ check_supabase_login
    \/ Setup_login_to_supabase
    \/ login_to_supabase
    \/ get_project_name_default
    \/ Create_get_project_name_prompt
    \/ Setup_check_project_exists
    \/ Create_check_project_exists
    \/ Setup_main_exists
    \/ Create_main_exists
    \/ Create_rename_check
    \/ Create_rename_ret
    \/ Create_rename_prompt
    \/ create_project_begin
    \/ Setup_create_project
    \/ Create_create_project
    \/ Setup_get_project_id
    \/ Setup_create_project_ret
    \/ Create_get_project_id
    \/ Setup_link_project
    \/ Setup_get_api_keys_plain
    \/ Setup_get_api_keys
    \/ Setup_get_api_keys_show
    \/ Setup_main_keys
    \/ Create_get_api_keys
    \/ main_update_env_file
    \/ read_env_file
    \/ main_resolve_credentials
    \/ initialize_supabase_skip
    \/ initialize_supabase
    \/ link_project
    \/ Migrate_check_project_linked_nofile
    \/ Migrate_check_project_linked
    \/ Setup_sync_remote_changes
    \/ sync_remote_changes
    \/ Setup_apply_migrations
    \/ apply_migrations
    \/ Setup_setup_auth_site
    \/ setup_auth_site
    \/ Setup_setup_auth_redirect
    \/ setup_auth_redirect

Spec == Init /\ [][Next]_vars

\* The same runs without their history, every command and every prompt
\* returning: a step that can be taken is taken.
LiveConfigs == {[c EXCEPT !.history = FALSE] : c \in RunConfigs}

InitLive == InitRun(LiveConfigs)

SpecLive == InitLive /\ [][Next]_vars /\ WF_vars(Next)

(***************************************************************************)
(* The synchronizer as a state machine: update_env_file called repeatedly  *)
(* with the same arguments on the same directory.                          *)
(***************************************************************************)
InitEnv ==
    /\ variant \in {"setup", "create"}
    /\ creds \in CredSet
    /\ \/ /\ env = NoFile
          /\ envExample \in {NoFile, ExampleText}
          /\ envTemplate \in {NoFile, TemplateText}
       \/ /\ env \in EnvFiles
          /\ envExample = ExampleText
          /\ envTemplate = TemplateText
    /\ calls = <<>>
    /\ cfg = BaseCfg("none")
    /\ pc = "idle"
    /\ attempt = 0
    /\ status = "idle"
    /\ exitAt = ""
    /\ errorMsg = NoMsg
    /\ last = NoCmd
    /\ hist = NoHist
    /\ slept = 0
    /\ loc = NoLoc
    /\ pwFile = NoFile
    /\ prompts = 0
    /\ gen = NoGen

UpdateEnvFile ==
    /\ Len(calls) < MaxCalls
    /\ LET r == update_env_file(variant, creds, env, envExample, envTemplate)
       IN  /\ env' = r.post
           /\ calls' = Append(calls, r)
    /\ UNCHANGED <<variant, creds, envExample, envTemplate>>
    /\ UNCHANGED <<runVars, gen>>

NextEnv == UpdateEnvFile

SpecEnv == InitEnv /\ [][NextEnv]_vars

(***************************************************************************)
(* Properties of the synchronizer (checked under SpecEnv)                  *)
(***************************************************************************)
CallIds == 1..Len(calls)

\* The mapping of call n, as a sequence of <<key, value>> pairs.
Pairs == EnvVars(variant, creds)
PairIds == 1..Len(Pairs)

\* Lines of a text on which the pattern of a key matches.
MatchLines(text, key) == {i \in 1..Len(text) : LineMatches(text[i], key)}

\* Lines of a text that are an active (non-comment) assignment of a key.
ActiveLines(text, key) ==
    {i \in 1..Len(text) : IsAssignment(text[i]) /\ LineKey(text[i]) = key}

\* Mapped keys with no matching line in a text.
AbsentIds(text) == {j \in PairIds : MatchLines(text, Pairs[j][1]) = {}}

\* A line of a text that no mapped key's pattern matches.
Unmapped(line) == \A j \in PairIds : ~LineMatches(line, Pairs[j][1])

\* The lines of a file as a reader sees them (str.splitlines): a final
\* line terminator opens no further line.
TextLines(text) ==
    IF text[Len(text)] = <<>> THEN SubSeq(text, 1, Len(text) - 1) ELSE text

\* KEY=value for every pair of the mapping, in mapping order.
MappingLines == [j \in PairIds |-> KeyValue(Pairs[j][1], Pairs[j][2])]

\* C1: calling update_env_file twice in sequence with the same arguments
\* leaves the file byte-identical to its content after the first call.
C1_Idempotent ==
    Len(calls) >= 2 => calls[2].post = calls[1].post

\* C2: after any update_env_file call every key of the mapping occurs on at
\* most one active (non-comment) line of the environment file.
C2_AtMostOneActiveLine ==
    \A n \in CallIds : \A j \in PairIds :
        Cardinality(ActiveLines(calls[n].post, Pairs[j][1])) <= 1

\* C3: a mapped key present on exactly one line is replaced in place by
\* KEY=value: no line is added for it, no second line for the key exists
\* afterwards, and the lines of keys outside the mapping are unchanged.
C3_ReplaceInPlace ==
    \A n \in CallIds : \A j \in PairIds :
        LET pre  == calls[n].pre
            post == calls[n].post
            key  == Pairs[j][1]
        IN  Cardinality(MatchLines(pre, key)) = 1 =>
              /\ Len(post) = Len(pre) + Cardinality(AbsentIds(pre))
              /\ MatchLines(post, key) = MatchLines(pre, key)
              /\ \A i \in MatchLines(pre, key) :
                     post[i] = KeyValue(key, Pairs[j][2])
              /\ \A i \in 1..Len(pre) : Unmapped(pre[i]) => post[i] = pre[i]

C5_ExactlyMappingLines ==
    \A n \in CallIds :
        calls[n].pre = EmptyFile => TextLines(calls[n].post) = MappingLines

\* C5 (amended): starting from an empty environment file, the file consists
\* of one empty line followed by exactly the KEY=value lines of the
\* mapping, one per key, in mapping order.
C5_EmptyLineThenMappingLines ==
    \A n \in CallIds :
        calls[n].pre = EmptyFile =>
            /\ calls[n].ok
            /\ TextLines(calls[n].post) = << <<>> >> \o MappingLines

\* C5 witness: a call that found neither .env nor a template has returned.
C5_Witness ==
    \E n \in CallIds :
        /\ ~calls[n].existed
        /\ envExample = NoFile /\ envTemplate = NoFile
        /\ calls[n].pre = EmptyFile
        /\ Len(calls[n].post) > 1

(***************************************************************************)
(* Exhausted retries, the command runner, fail-fast scripts                *)
(***************************************************************************)
MutatingOps == {"create", "link", "sync", "push", "auth_site", "auth_redirect"}

\* The number of attempts each script gives a mutating operation.
AttemptBound(script, op) ==
    IF script # "setup" THEN 1
    ELSE CASE op = "create"        -> CreateAttempts
           [] op = "link"          -> LinkAttempts
           [] op = "sync"          -> SyncAttempts
           [] op = "push"          -> PushAttempts
           [] op = "auth_site"     -> SiteAttempts
           [] op = "auth_redirect" -> RedirectAttempts

\* The last attempt of a mutating operation has just returned non-zero.
Exhausted ==
    /\ last.op \in MutatingOps
    /\ last.rc # 0
    /\ last.attempt = AttemptBound(cfg.script, last.op)

SetupCreateExhausted ==
    Exhausted /\ cfg.script = "setup" /\ last.op = "create"

\* C6 (as claimed): a mutating operation whose every attempt within its
\* bound returned a non-zero exit code has terminated the process with a
\* non-zero exit status.
C6_ExhaustedMutatingTerminates ==
    Exhausted => status = "exit1"

\* C6 (amended): link, remote-change sync, migration push and the two auth
\* URL settings in every script, and project create in create-project.py,
\* terminate the process with exit status 1 once their last attempt returned
\* non-zero, and no further command is invoked; setup.py's project create
\* does not: after its third failed attempt the run goes on to the
\* identifier lookup.
C6_ExhaustedTerminatesExceptSetupCreate ==
    /\ [](Exhausted =>
            IF SetupCreateExhausted
            THEN status = "running" /\ pc = "get_id" /\ attempt = 1
            ELSE status = "exit1")
    /\ [][(Exhausted /\ ~SetupCreateExhausted) => last' = last]_vars

\* C6 witness: setup.py's link has failed LinkAttempts times and the
\* process has exited with status 1.
C6_Witness ==
    /\ Exhausted
    /\ cfg.script = "setup"
    /\ last.op = "link"
    /\ last.attempt = LinkAttempts
    /\ status = "exit1"
    /\ exitAt = "link_project"

LookupFns == {"check_project_exists", "get_project_id", "get_api_keys"}

\* C7: a read-only lookup of setup.py never terminates the process itself,
\* and when its last attempt has failed it has returned the absent result
\* (False, None, (None, None)) to its caller.
C7_LookupsReturnAbsent ==
    cfg.script = "setup" =>
        /\ exitAt \notin LookupFns
        /\ (pc = "exists_ret" /\ last.op = "list_exists" /\ last.rc # 0)
              => loc.existsRet = "no"
        /\ (pc = "get_id_ret" /\ last.op = "list_id" /\ last.rc # 0)
              => loc.projectId = None
        /\ (pc = "keys_ret" /\ last.op = "show" /\ last.rc # 0)
              => (loc.anonKey = None /\ loc.serviceKey = None)

\* C8: when run_command is called with check=True and the command exits
\* non-zero, the process has terminated with exit status 1 inside
\* run_command, and the printed error shows the captured error text of the
\* command whenever the output was captured.
C8_FatalSurfacesErrorText ==
    (last.check /\ last.rc # 0) =>
        /\ status = "exit1"
        /\ exitAt = "run_command"
        /\ errorMsg.cmd = last.op
        /\ (last.capture => errorMsg.stderr)

\* C9: when run_command is called with check=False it does not terminate
\* the process on account of the exit code, and the result it returns
\* carries the exit code of the command, zero or not.
C9_UncheckedReturnsExitCode ==
    (last.op # "none" /\ ~last.check) =>
        /\ ~last.fatal
        /\ last.returncode = last.rc
        /\ exitAt # "run_command"

\* C9 witness: a command run with check=False has exited non-zero and the
\* run goes on.
C9_Witness ==
    /\ last.op # "none"
    /\ ~last.check
    /\ last.rc # 0
    /\ last.returncode = last.rc
    /\ status = "running"

FailFastScripts == {"create", "link", "migrate", "linkmig"}

StepOps == {"list_exists", "create", "list_id", "api_keys", "init", "link",
            "sync", "push", "auth_site", "auth_redirect"}

\* The command of a step of a fail-fast script has just exited non-zero.
StepFailed ==
    /\ cfg.script \in FailFastScripts
    /\ last.op \in StepOps
    /\ last.rc # 0

\* C10: in create-project.py, link.py, migrate.py and link-and-migrate.py a
\* step whose command exits non-zero ends the process with exit status 1 in
\* that very command, on its first and only attempt, and no command is
\* invoked afterwards.
C10_FailFast ==
    /\ [](StepFailed =>
            /\ status = "exit1"
            /\ exitAt = "run_command"
            /\ errorMsg = CommandFailedMsg(last.op, last.rc)
            /\ last.attempt = 1)
    /\ [][StepFailed => last' = last]_vars

\* C10 witness: the migration push of link-and-migrate.py has exited
\* non-zero and the process has ended.
C10_Witness ==
    /\ StepFailed
    /\ cfg.script = "linkmig"
    /\ last.op = "push"
    /\ status = "exit1"

(***************************************************************************)
(* Authentication before the domain steps                                  *)
(***************************************************************************)
\* The positions of op in the sequence of operations started so far.
EnteredAt(op) == {i \in 1..Len(hist.entered) : hist.entered[i] = op}

\* The login was verified before position i: a token file was found
\* (setup.py), or the login test had been run, and "supabase login" had
\* been run as well when the test did not exit zero.
AuthVerifiedBefore(i) ==
    \/ cfg.script = "setup" /\ cfg.hasToken
    \/ /\ \E j \in EnteredAt("login_check") : j < i
       /\ "login_check" \notin hist.zero
             => \E j \in EnteredAt("login") : j < i

\* C11 (as claimed): in every script the login is verified, and "supabase
\* login" run when the verification fails, before the command of any
\* domain step is invoked.
C11_AuthBeforeSteps ==
    \A i \in 1..Len(hist.entered) :
        hist.entered[i] \in MutatingOps => AuthVerifiedBefore(i)

\* C11 (amended): the same in setup.py, create-project.py, link.py and
\* link-and-migrate.py; migrate.py never runs the login test or the login:
\* before its steps it has only found .supabase/config.json and run
\* "supabase status".
C11_AuthBeforeStepsExceptMigrate ==
    \A i \in 1..Len(hist.entered) :
        hist.entered[i] \in MutatingOps =>
            IF cfg.script = "migrate"
            THEN /\ EnteredAt("login_check") = {}
                 /\ EnteredAt("login") = {}
                 /\ cfg.linkedCfg
                 /\ EnteredAt("status") = {1}
            ELSE AuthVerifiedBefore(i)

\* C11 witness: link.py's login test failed, the login was run and the
\* link command has been started.
C11_Witness ==
    /\ cfg.script = "link"
    /\ "login_check" \notin hist.zero
    /\ EnteredAt("login") # {}
    /\ last.op = "link"

(***************************************************************************)
(* Success only on exit code zero                                          *)
(***************************************************************************)
\* The most recent command is the lookup op and the run has gone on.
JustRan(op) == last.op = op /\ status = "running"

\* A lookup has just handed a positive result to its caller: the project
\* was found, its id was found, both keys were found.
FoundProject ==
    JustRan("list_exists") /\ pc \in {"exists_ret", "rename_ret"}
        /\ loc.existsRet = "yes"

FoundId ==
    JustRan("list_id") /\ cfg.script \in {"setup", "create"}
        /\ loc.projectId # None

FoundKeys ==
    (JustRan("api_keys") \/ JustRan("show"))
        /\ pc \in {"keys_ret", "update_env"}
        /\ loc.anonKey # None /\ loc.serviceKey # None

\* check_project_linked has just returned True.
FoundLinked == JustRan("status") /\ pc = "sync"

\* The run has gone on past the mutating operation op: a later operation
\* was started, or main() returned.
WentPast(op) ==
    \E i \in EnteredAt(op) : i < Len(hist.entered) \/ status = "exit0"

\* C12 (as claimed): a positive result (project found, id found, keys found,
\* project linked) is only taken from an attempt that exited zero, and the
\* run goes on past a mutating operation only if one of its attempts exited
\* zero.
C12_SuccessOnlyOnExitZero ==
    /\ (FoundProject \/ FoundId \/ FoundKeys \/ FoundLinked) => last.rc = 0
    /\ \A op \in MutatingOps : WentPast(op) => op \in hist.zero

\* C12 (amended): as claimed, with two exceptions.  migrate.py's
\* check_project_linked also accepts a "supabase status" that exited
\* non-zero when its output holds "Project ID:".  setup.py's create_project
\* goes on to the identifier lookup, and returns the id found there, when
\* none of its create attempts exited zero.
C12_SuccessOnlyOnExitZeroExceptStatusAndSetupCreate ==
    /\ (FoundProject \/ FoundId \/ FoundKeys) => last.rc = 0
    /\ FoundLinked => (last.rc = 0 \/ last.out = "has_project_id")
    /\ \A op \in MutatingOps :
          (WentPast(op) /\ ~(cfg.script = "setup" /\ op = "create"))
              => op \in hist.zero
    /\ (cfg.script = "setup" /\ WentPast("create") /\ "create" \notin hist.zero)
          => (EnteredAt("link") # {} => "list_id" \in hist.zero)

\* C12 witness: setup.py's identifier lookup failed with a non-zero exit
\* code, then found the id on an attempt that exited zero.
C12_Witness ==
    /\ cfg.script = "setup"
    /\ FoundId
    /\ last.attempt > 1
    /\ last.rc = 0

(***************************************************************************)
(* Malformed JSON responses                                                *)
(***************************************************************************)
\* Outputs that are no JSON text: json.loads raises JSONDecodeError.
Malformed(out) ==
    out \in {"empty", "badjson", "badjson_none", "badjson_both",
             "badjson_blank"}

\* The most recent command is one whose output is parsed as JSON; it exited
\* zero and its output is no JSON.
MalformedResponse ==
    /\ last.op \in {"list_exists", "list_id", "api_keys"}
    /\ last.rc = 0
    /\ Malformed(last.out)

InvalidJsonMsgs ==
    {"Invalid JSON response from Supabase CLI", "Invalid JSON response",
     "Invalid JSON response when retrieving API keys"}

\* C13 (as claimed): a project-list or API-key command that exits zero with
\* a malformed JSON response makes the process print an error and exit
\* with status 1 at once.
C13_MalformedJsonExits ==
    MalformedResponse =>
        /\ status = "exit1"
        /\ errorMsg.text \in InvalidJsonMsgs

\* C13 (amended): so it is in create-project.py; in setup.py such a
\* response ends nothing: the attempt counts as failed (or, for the API
\* keys, the keys are taken from the raw text) and the lookup goes on; the
\* process never exits inside the lookup nor with an invalid-JSON message.
C13_MalformedJsonExitsInCreateOnly ==
    MalformedResponse =>
        IF cfg.script = "create"
        THEN /\ status = "exit1"
             /\ exitAt \in LookupFns
             /\ errorMsg.text \in InvalidJsonMsgs
        ELSE /\ cfg.script = "setup"
             /\ exitAt \notin LookupFns
             /\ errorMsg.text \notin InvalidJsonMsgs

\* C13 witness: create-project.py's API-key command exited zero with text
\* that is no JSON, and the process has exited.
C13_Witness ==
    /\ cfg.script = "create"
    /\ MalformedResponse
    /\ last.op = "api_keys"
    /\ last.out = "badjson_both"
    /\ status = "exit1"


(***************************************************************************)
(* C14: credentials are produced once and only propagated                  *)
(***************************************************************************)
CreationScripts == {"setup", "create"}

\* The key under which the script writes the database password to .env.
PasswordKey(script) == IF script = "setup" THEN K_PG_PASSWORD ELSE K_DB_PASSWORD

\* update_env_file has been called and returned.
EnvWritten == calls # <<>> /\ calls[Len(calls)].ok

\* C14: in a run of setup.py or create-project.py every create and link
\* command carries the generated password, the backup file holds it, every
\* link, API-key and show command carries the looked-up project id, the
\* call of update_env_file gets both and the URL made of the id, the
\* written .env holds them, and neither local is assigned again once set.
C14_CredentialsOnlyPropagated ==
    /\ [](cfg.script \in CreationScripts =>
            /\ \A p \in hist.passed :
                  /\ p.db_password \in {<<>>, loc.dbPassword}
                  /\ p.project_id \in {<<>>, loc.projectId}
                  /\ p.op \in {"create", "link"} => p.db_password # <<>>
                  /\ p.op # "create" => p.project_id # <<>>
            /\ pwFile # NoFile => pwFile = <<loc.dbPassword>>
            /\ calls # <<>> =>
                  /\ creds.db_password = loc.dbPassword
                  /\ creds.project_id = loc.projectId
                  /\ creds.project_url = ProjectUrl(loc.projectId)
            /\ EnvWritten =>
                  /\ EnvGet(env, PasswordKey(cfg.script)) = loc.dbPassword
                  /\ EnvGet(env, K_URL) = ProjectUrl(loc.projectId)
                  /\ cfg.script = "create" =>
                        EnvGet(env, K_PROJECT) = loc.projectId)
    /\ [][cfg.script \in CreationScripts =>
            /\ loc.dbPassword # None => loc'.dbPassword = loc.dbPassword
            /\ loc.projectId # None => loc'.projectId = loc.projectId]_vars

\* setup.py has created and linked the project, fetched the keys and
\* written .env and the backup file with the generated password "=k".
C14_Witness ==
    /\ cfg.script = "setup"
    /\ EnvWritten
    /\ pwFile = <<loc.dbPassword>>
    /\ loc.dbPassword = <<"=", "k">>
    /\ \E p \in hist.passed : p.op = "link"
    /\ "create" \in hist.zero

(***************************************************************************)
(* C15: a second run of setup.py                                           *)
(***************************************************************************)
\* C15: a run of setup.py that starts after an earlier run created the
\* project never issues a "projects create" command, whatever the outcomes
\* of its existence-check attempts.
C15_NoSecondCreate ==
    (cfg.script = "setup" /\ cfg.createdBefore) => EnteredAt("create") = {}

(***************************************************************************)
(* C16: KeyboardInterrupt at a project-name prompt of create-project.py    *)
(***************************************************************************)
\* The last answer at a prompt was a keyboard interruption.
Interrupted == cfg.script = "create" /\ loc.answer = "INTERRUPT"

\* C16: an interruption at a name prompt of create-project.py ends the
\* process in that step with status 1 and the message "Project creation
\* cancelled by user", which no other exit prints; the step and everything
\* after it run no command and leave .env as it was, and no project has
\* been created nor .env written in the run.
C16_InterruptCancels ==
    /\ [](Interrupted =>
            /\ status = "exit1"
            /\ exitAt \in {"get_project_name", "main"}
            /\ errorMsg.text = CancelledMsg
            /\ calls = <<>>
            /\ EnteredAt("create") = {})
    /\ [](errorMsg.text = CancelledMsg => Interrupted)
    /\ [][Interrupted' => UNCHANGED <<last, hist, envVars>>]_vars

\* The rename prompt was interrupted after a first name was found taken.
C16_Witness ==
    /\ Interrupted
    /\ exitAt = "main"
    /\ last.op = "list_exists"
    /\ loc.existsRet = "yes"
    /\ status = "exit1"

(***************************************************************************)
(* C17: the password generators                                            *)
(***************************************************************************)
\* string.punctuation without the double quote, which no alphabet holds.
Punctuation ==
    {"!", "#", "$", "%", "&", "'", "(", ")", "*", "+", ",", "-",
      ".", "/", ":", ";", "<", "=", ">", "?", "@", "[", "\\",
      "]", "^", "_", BT, "{", "|", "}", "~"}

\* The characters the comment of create-project.py names as avoided.
ShellSpecial ==
    {"!", "$", "&", "(", ")", "*", ";", "<", ">", "?", "[", "]",
      "\\", BT, "|", "'"}

SafeAlphabet == AsciiLetters \cup Digits \cup (Punctuation \ ShellSpecial)

\* C17: each generator returns a string of exactly the requested length
\* whose characters all belong to the safe alphabet.
C17_PasswordSafe ==
    /\ gen.made > 0 => gen.ch \in SafeAlphabet
    /\ gen.pc = "returned" => gen.made = gen.length

(***************************************************************************)
(* C18: creation of .env from a template                                   *)
(***************************************************************************)
\* What a call starts from: .env when it exists, else .env.example, else
\* .env.template, else the empty file.
StartText ==
    IF env # NoFile THEN env
    ELSE IF envExample # NoFile THEN envExample
    ELSE IF envTemplate # NoFile THEN envTemplate
    ELSE EmptyFile

\* C18: a call of update_env_file applies the mapping to .env when it
\* exists and else to the first existing template (.env.example, then
\* .env.template) or to the empty file; the lines no mapped key's pattern
\* matches are those of that text, in order, and the templates are left
\* alone.
C18_CreateFromTemplate ==
    [][/\ calls'[Len(calls')].pre = StartText
       /\ calls'[Len(calls')].existed = (env # NoFile)
       /\ SelectSeq(env', Unmapped) = SelectSeq(StartText, Unmapped)
       /\ envExample' = envExample
       /\ envTemplate' = envTemplate]_vars

\* A first call has made .env from .env.template, there being no
\* .env.example, and kept the template's unmapped line.
C18_Witness ==
    /\ calls # <<>>
    /\ ~calls[1].existed
    /\ envExample = NoFile
    /\ calls[1].pre = TemplateText
    /\ \E i \in 1..Len(calls[1].post) : calls[1].post[i] = <<"OTHER", "=", "k">>

(***************************************************************************)
(* C19: project id and password of link.py and link-and-migrate.py         *)
(***************************************************************************)
LinkScripts == {"link", "linkmig"}

\* The value of the command line when given, else that of .env.
Chosen(arg, key) == IF arg # <<>> THEN arg ELSE EnvGet(env, key)

\* .env does not exist, or the id or the password comes from neither
\* source.
CredentialMissing ==
    \/ env = NoFile
    \/ Chosen(cfg.cliProjectId, K_PROJECT) = <<>>
    \/ Chosen(cfg.cliDbPassword, K_DB_PASSWORD) = <<>>

\* C19: in link.py and link-and-migrate.py every link command carries the
\* id and password of the command line when given and of .env otherwise,
\* neither of them empty; when one is missing, or .env is, the run never
\* gets past the choice of the two, never returns from main() and runs
\* neither init nor link.
C19_LinkCredentials ==
    cfg.script \in LinkScripts =>
        /\ \A p \in hist.passed :
              /\ p.op = "link"
              /\ p.project_id = Chosen(cfg.cliProjectId, K_PROJECT)
              /\ p.db_password = Chosen(cfg.cliDbPassword, K_DB_PASSWORD)
              /\ p.project_id # <<>>
              /\ p.db_password # <<>>
        /\ CredentialMissing =>
              /\ EnteredAt("init") = {}
              /\ EnteredAt("link") = {}
              /\ status # "exit0"
              /\ pc \in {"login_check", "login", "read_env", "resolve"}

\* link.py has run the link command with the password of the command
\* line, .env holding another one.
C19_Witness ==
    /\ cfg.script = "link"
    /\ cfg.cliDbPassword = <<"k">>
    /\ cfg.cliProjectId = <<>>
    /\ EnvGet(env, K_DB_PASSWORD) = <<"=", "k">>
    /\ last.op = "link"
    /\ [op |-> "link", project_id |-> <<"r">>, db_password |-> <<"k">>]
          \in hist.passed

(***************************************************************************)
(* C20: attempt bounds of the retried operations                           *)
(***************************************************************************)
\* The operations setup.py runs in a retry loop.
RetriedOps ==
    {"list_exists", "create", "list_id", "api_keys", "link", "sync", "push",
     "auth_site", "auth_redirect"}

\* The length of the loop of each.
LoopBound(op) ==
    CASE op = "list_exists"   -> ExistsAttempts
      [] op = "create"        -> CreateAttempts
      [] op = "list_id"       -> IdAttempts
      [] op = "api_keys"      -> KeysAttempts
      [] op = "link"          -> LinkAttempts
      [] op = "sync"          -> SyncAttempts
      [] op = "push"          -> PushAttempts
      [] op = "auth_site"     -> SiteAttempts
      [] op = "auth_redirect" -> RedirectAttempts

\* The attempt the function took as its success: a zero exit code, and for
\* the lookups an output that could be used.
Succeeded(c) ==
    /\ c.rc = 0
    /\ CASE c.op = "list_exists" -> c.out # "empty" /\ ValidJson(c.out)
         [] c.op = "list_id"     -> c.out = "match"
         [] c.op = "api_keys"    ->
               c.out \in {"json_both", "badjson_both", "badjson_blank"}
         [] OTHER -> TRUE

\* C20: in setup.py a retried operation is at attempt 3 at most when it
\* is the existence check, create, sync, push or an auth URL, and 5 at most
\* when it is the identifier lookup, the API-key retrieval or link, every
\* bound lying in 3..6; an attempt after the first follows the failed
\* attempt before it of the same operation, and no operation is begun
\* twice.
C20_BoundedAttempts ==
    /\ [](cfg.script = "setup" /\ last.op \in RetriedOps =>
            /\ last.attempt \in 1..LoopBound(last.op)
            /\ LoopBound(last.op) \in 3..6
            /\ LoopBound(last.op) =
                  IF last.op \in {"list_id", "api_keys", "link"} THEN 5 ELSE 3
            /\ \A i, j \in 1..Len(hist.entered) :
                  hist.entered[i] = hist.entered[j] => i = j)
    /\ [][(cfg.script = "setup" /\ last' # last /\ last'.attempt > 1) =>
            /\ last'.op \in RetriedOps
            /\ last.op = last'.op
            /\ last.attempt = last'.attempt - 1
            /\ ~Succeeded(last)]_vars

\* The API-key retrieval of setup.py is at its fifth attempt.
C20_Witness ==
    /\ cfg.script = "setup"
    /\ last.op = "api_keys"
    /\ last.attempt = KeysAttempts
    /\ last.rc # 0

(***************************************************************************)
(* C21: the delays of the operations that wait for provisioning            *)
(***************************************************************************)
\* The most recent command is a failed attempt of op in setup.py and the
\* function is still in its loop or has just left it.
FailedAttemptOf(op) ==
    /\ cfg.script = "setup"
    /\ last.op = op
    /\ ~Succeeded(last)
    /\ status = "running"

\* The wait after the first failed attempt of each.
SleepBase(op) == IF op = "api_keys" THEN 5 ELSE 10

\* C21 (as claimed): after failed attempt k of the API-key retrieval and
\* of the identifier lookup the sleep is k times a fixed base, and there is
\* a sleep only when another attempt follows.
C21_LinearDelay ==
    \A op \in {"api_keys", "list_id"} :
        FailedAttemptOf(op) =>
            /\ slept \in {0, last.attempt * SleepBase(op)}
            /\ slept > 0 <=> last.attempt < LoopBound(op)

\* C21 (amended): the API-key retrieval sleeps k times 5 seconds after
\* failed attempt k and the identifier lookup 10 seconds after every failed
\* attempt, the last attempt of the loop included.
C21_LinearForKeysFixedForId ==
    /\ FailedAttemptOf("api_keys") => slept = last.attempt * 5
    /\ FailedAttemptOf("list_id") => slept = 10

\* The third round of the API-key retrieval has failed and 15 seconds
\* were slept.
C21_Witness ==
    /\ FailedAttemptOf("api_keys")
    /\ last.attempt = 3
    /\ slept = 15

(***************************************************************************)
(* C22: the pattern fallback of get_api_keys                               *)
(***************************************************************************)
\* A round of setup.py's API-key loop has exited zero with text that is no
\* JSON.
KeysNotJson ==
    /\ cfg.script = "setup"
    /\ last.op = "api_keys"
    /\ last.rc = 0
    /\ last.out \in {"badjson_none", "badjson_both", "badjson_blank"}

\* C22: after such a round the two keys are returned at once when the raw
\* text holds both, and else the round counts as failed: the loop goes on
\* (after its last round the function turns to "projects show") and no key
\* has been returned.
C22_FallbackBeforeFailure ==
    KeysNotJson =>
        IF last.out = "badjson_both"
        THEN /\ loc.anonKey = ApiKey
             /\ loc.serviceKey = ApiKey
             /\ pc \notin {"keys", "keys_show"}
        ELSE /\ status = "running"
             /\ pc = IF last.attempt < KeysAttempts THEN "keys" ELSE "keys_show"
             /\ attempt = IF last.attempt < KeysAttempts
                           THEN last.attempt + 1 ELSE 1
             /\ slept = get_api_keys_sleep(last.attempt)

(***************************************************************************)
(* C23: termination                                                        *)
(***************************************************************************)
Terminated == status \in {"exit0", "exit1"}

\* The order in which main() of each script comes to its operations.
Flow(script) ==
    CASE script = "setup" ->
            <<"login_check", "login", "name", "exists", "exists_ret",
              "create_begin", "create", "get_id", "get_id_ret", "link",
              "keys_plain", "keys", "keys_show", "keys_ret", "update_env",
              "init", "sync", "push", "auth_site", "auth_redirect">>
      [] script = "create" ->
            <<"login_check", "login", "name", "exists", "exists_ret",
              "rename_check", "rename_ret", "rename_prompt", "create_begin",
              "create", "get_id", "keys", "update_env">>
      [] script \in {"link", "linkmig"} ->
            <<"login_check", "login", "read_env", "resolve", "init", "link",
              "sync", "push", "auth_site", "auth_redirect">>
      [] script = "migrate" ->
            <<"linked_check", "sync", "push", "auth_site", "auth_redirect">>

\* The place of an operation in the order of its script.
Pos(script, p) ==
    CHOOSE i \in 1..Len(Flow(script)) : Flow(script)[i] = p

\* A step that brings the run closer to its end: the process ends, main()
\* goes on to a later operation, or a loop goes into its next round, of
\* which there are six at most.
Closer ==
    \/ Terminated'
    \/ Pos(cfg.script, pc') > Pos(cfg.script, pc)
    \/ pc' = pc /\ attempt' = attempt + 1 /\ attempt' <= 6

\* The answer to the rename prompt of create-project.py was a name: the
\* loop checks it.
RenameAgain ==
    /\ cfg.script = "create" /\ ~cfg.nonInteractive
    /\ pc = "rename_prompt" /\ pc' = "rename_check"

\* main()'s call of update_env_file can be made: the action has no other
\* condition.
AtUpdateEnv == Running /\ pc = "update_env" /\ cfg.script \in {"setup", "create"}

\* C23 (as claimed): every run of every script comes to its end within a
\* bounded number of steps: every step brings it closer to its end, and no
\* operation is come back to.
C23_EveryStepCloser == [][Closer]_vars

\* C23 (amended): a run that has not ended can take a step, and every step
\* but the answer of another name at the rename prompt of an interactive
\* create-project.py brings the run closer to its end.
C23_TerminatesUnlessRenaming ==
    /\ [](Terminated \/ AtUpdateEnv \/ ENABLED Next)
    /\ [][Closer \/ RenameAgain]_vars

\* The rename loop is at its prompt after the answer "q" was found taken.
C23_Witness ==
    /\ cfg.script = "create"
    /\ ~cfg.history
    /\ pc = "rename_prompt"
    /\ loc.answer = "q"
    /\ loc.projectName = "q"
    /\ loc.existsRet = "yes"

(***************************************************************************)
(* C24: the environment file is written last                               *)
(***************************************************************************)
\* main() holds the project id and both API keys.
ObtainedAll ==
    loc.projectId # None /\ loc.anonKey # None /\ loc.serviceKey # None

\* The run has ended with a fatal error and update_env_file was not called.
FatalBeforeUpdate ==
    cfg.script \in CreationScripts /\ status = "exit1" /\ calls = <<>>

\* C24: in a run of setup.py or create-project.py the .env file changes
\* (is created or modified) only in the step that calls update_env_file,
\* which main() takes holding the project id and both keys; so a run that
\* ends with a fatal error before that call leaves the file as it found it.
C24_EnvUntouchedBeforeUpdate ==
    /\ [][cfg.script \in CreationScripts /\ (env' # env \/ calls' # calls)
            => /\ Running /\ pc = "update_env" /\ ObtainedAll
               /\ Len(calls') = Len(calls) + 1]_vars
    /\ [](FatalBeforeUpdate => env \in RunEnvs(cfg.script))
    /\ [](cfg.script \in CreationScripts /\ pc = "update_env" => ObtainedAll)

\* setup.py has ended with "Failed to retrieve API keys" and the .env it
\* found is still there, update_env_file never called.
C24_Witness ==
    /\ FatalBeforeUpdate /\ cfg.script = "setup"
    /\ errorMsg = Msg("Failed to retrieve API keys")
    /\ env = << KeyValue(K_ORG, <<"k">>) >>

(***************************************************************************)
(* C25: no create command for a name found to exist                        *)
(***************************************************************************)
\* The step runs the project-create command.
CreateCommandRuns ==
    /\ cfg.script \in CreationScripts /\ Running /\ pc = "create"
    /\ last'.op = "create"

\* C25: whenever setup.py or create-project.py runs the project-create
\* command, the most recent existence check was made for the name the
\* command carries and returned that no such project exists; a run whose
\* most recent check returned that the project exists has ended (setup.py,
\* create-project.py non-interactive) or is in the rename loop.
C25_NoCreateForExisting ==
    /\ [][CreateCommandRuns
            => loc.checkedName = loc.projectName /\ loc.existsRet = "no"]_vars
    /\ [](cfg.script \in CreationScripts /\ loc.existsRet = "yes"
            => /\ last.op = "list_exists"
               /\ status # "exit0"
               /\ IF cfg.script = "create" /\ ~cfg.nonInteractive
                  THEN pc \in {"exists_ret", "rename_check", "rename_ret",
                               "rename_prompt"}
                  ELSE /\ pc = "exists_ret"
                       /\ ~Running => errorMsg = Msg("Project already exists"))

\* Interactive create-project.py has run the create command for the name
\* entered at the rename prompt, after the first name was found to exist.
C25_Witness ==
    /\ cfg.script = "create" /\ ~cfg.nonInteractive
    /\ last.op = "create"
    /\ loc.answer = "q" /\ loc.projectName = "q"
    /\ prompts > 0

(***************************************************************************)
(* C26: what create-project.py writes to .env, link.py and                 *)
(* link-and-migrate.py read back                                           *)
(***************************************************************************)
\* Lines a pre-existing .env is made of: another key, and the two keys
\* assigned, assigned after leading blank space, and commented out.
TripLines ==
    { <<"OTHER", "=", "k">>,
      KeyValue(K_PROJECT, <<"k">>),
      <<" ">> \o KeyValue(K_PROJECT, <<"k">>),
      KeyValue(K_DB_PASSWORD, <<"r">>),
      <<" ">> \o KeyValue(K_DB_PASSWORD, <<"r">>),
      <<"#">> \o KeyValue(K_DB_PASSWORD, <<"r">>) }

\* Pre-existing .env files of 1..MaxLines lines.
TripFiles == UNION {[1..n -> TripLines] : n \in 1..MaxLines}

\* The arguments of update_env_file: a project id, the keys, and a
\* generated password.
TripCreds ==
    { [project_id  |-> <<"r">>,
       project_url |-> ProjectUrl(<<"r">>),
       anon_key    |-> <<"j">>,
       service_key |-> <<"j">>,
       db_password |-> p,
       org_id      |-> <<"k">>] : p \in PwValues }

InitTrip ==
    /\ variant = "create"
    /\ creds \in TripCreds
    /\ env \in TripFiles
    /\ envExample = NoFile
    /\ envTemplate = NoFile
    /\ calls = <<>>
    /\ cfg \in {BaseCfg("link"), BaseCfg("linkmig")}
    /\ pc = "update_env"
    /\ attempt = 1
    /\ status = "running"
    /\ exitAt = ""
    /\ errorMsg = NoMsg
    /\ last = NoCmd
    /\ hist = NoHist
    /\ slept = 0
    /\ loc = NoLoc
    /\ pwFile = NoFile
    /\ prompts = 0
    /\ gen = NoGen

\* create-project.py's update_env_file on the directory.
Trip_update_env_file ==
    /\ pc = "update_env"
    /\ LET r == update_env_file(variant, creds, env, envExample, envTemplate)
       IN  /\ env' = r.post
           /\ calls' = Append(calls, r)
    /\ pc' = "read_env"
    /\ UNCHANGED <<variant, creds, envExample, envTemplate>>
    /\ UNCHANGED <<gen, cfg, attempt, status, exitAt, errorMsg, last, hist,
                   slept, loc, pwFile, prompts>>

\* read_env_file of link.py or link-and-migrate.py on the same directory,
\* and env_vars.get of the two keys.
Trip_read_env_file ==
    /\ pc = "read_env"
    /\ loc' = [loc EXCEPT !.projectId = EnvGet(env, K_PROJECT),
                          !.dbPassword = EnvGet(env, K_DB_PASSWORD)]
    /\ pc' = "resolve"
    /\ UNCHANGED <<gen, cfg, attempt, status, exitAt, errorMsg, last, hist,
                   slept, pwFile, prompts, envVars>>

NextTrip == Trip_update_env_file \/ Trip_read_env_file

SpecTrip == InitTrip /\ [][NextTrip]_vars

\* C26: once create-project.py's update_env_file has written a project id
\* and a generated password into a pre-existing .env, the values that
\* read_env_file of link.py and link-and-migrate.py returns for
\* SUPABASE_PROJECT_ID and SUPABASE_DB_PASSWORD are the written ones.
C26_RoundTrip ==
    (pc = "resolve" /\ calls # <<>> /\ calls[1].ok)
        => /\ loc.projectId = creds.project_id
           /\ loc.dbPassword = creds.db_password
=============================================================================
